---- MODULE Spec2Model ----
(***************************************************************************)
(* Recommendation scoring engine of the smart-farming assistant: the crop  *)
(* predictor (model_integration.py), the crop form handler and its         *)
(* rule-based scorer (crop_routes.py), the fertilizer predictor            *)
(* (predict.py) and the fertilizer form handler with its rule-based scorer *)
(* (fertilizer_routes.py).                                                 *)
(*                                                                         *)
(* Text is a sequence of one-character strings, so that lower(), strip(),  *)
(* capitalize() and the `in' substring test are computed, not assumed.     *)
(* Numbers are exact rationals n/den with a sign d in {-1,0,1} recording   *)
(* on which side of the decimal value the IEEE double computed by Python   *)
(* lies (0: the double nearest to the decimal value itself).               *)
(***************************************************************************)
EXTENDS Integers, Sequences, FiniteSets, TLC

(***************************************************************************)
(* Bounds of the model.                                                    *)
(***************************************************************************)
\* number of class labels of the trained crop classifier (model.classes_)
NumCropLabels == 7
\* number of class labels of the trained fertilizer classifier
NumFertLabels == 7
\* a class probability is a multiple of 1/ProbUnits
ProbUnits == 3

(***************************************************************************)
(* Program constants.                                                      *)
(***************************************************************************)
\* crop_probabilities[:6]
CropTopN == 6
\* recommendations[:6]
FertTopN == 6
\* np.argsort(probabilities)[-6:]
PredictTopN == 6

(***************************************************************************)
(* Text.                                                                   *)
(***************************************************************************)
LowerChars == <<"a","b","c","d","e","f","g","h","i","j","k","l","m",
                "n","o","p","q","r","s","t","u","v","w","x","y","z">>

UpperChars == <<"A","B","C","D","E","F","G","H","I","J","K","L","M",
                "N","O","P","Q","R","S","T","U","V","W","X","Y","Z">>

\* str.lower() on one character
LowerChar(c) ==
  IF \E i \in 1..26 : UpperChars[i] = c
  THEN LowerChars[CHOOSE i \in 1..26 : UpperChars[i] = c]
  ELSE c

\* str.upper() on one character
UpperChar(c) ==
  IF \E i \in 1..26 : LowerChars[i] = c
  THEN UpperChars[CHOOSE i \in 1..26 : LowerChars[i] = c]
  ELSE c

\* str.lower()
StrLower(s) == [i \in 1..Len(s) |-> LowerChar(s[i])]

\* str.capitalize(): first character upper-cased, the rest lower-cased
StrCapitalize(s) ==
  [i \in 1..Len(s) |-> IF i = 1 THEN UpperChar(s[i]) ELSE LowerChar(s[i])]

\* str.strip(): leading and trailing blanks removed
StrStrip(s) ==
  LET idx == {i \in 1..Len(s) : s[i] # " "}
  IN IF idx = {} THEN <<>>
     ELSE LET lo == CHOOSE i \in idx : \A j \in idx : i <= j
              hi == CHOOSE i \in idx : \A j \in idx : j <= i
          IN SubSeq(s, lo, hi)

\* Python's `sub in s' on strings
StrContains(s, sub) ==
  \E k \in 0..(Len(s) - Len(sub)) :
    \A i \in 1..Len(sub) : s[k + i] = sub[i]

\* Python's `x in list'
InList(x, list) == \E i \in 1..Len(list) : list[i] = x

\* Python's s[:n]
Take(s, n) == SubSeq(s, 1, IF Len(s) < n THEN Len(s) ELSE n)

\* Python's s[-n:]
TakeLast(s, n) == SubSeq(s, IF Len(s) < n THEN 1 ELSE Len(s) - n + 1, Len(s))

\* Python's s[::-1]
Reverse(s) == [i \in 1..Len(s) |-> s[Len(s) + 1 - i]]

(***************************************************************************)
(* Numbers: n/den, with the side d of the computed double.                 *)
(***************************************************************************)
Num(n, den, d) == [n |-> n, den |-> den, d |-> d]

Q(n, den) == Num(n, den, 0)

NumLt(a, b) ==
  \/ a.n * b.den < b.n * a.den
  \/ a.n * b.den = b.n * a.den /\ a.d < b.d

NumEq(a, b) == a.n * b.den = b.n * a.den /\ a.d = b.d

NumLe(a, b) == NumLt(a, b) \/ NumEq(a, b)

\* Python's min(a, b) and max(a, b): the first argument wins a tie
NumMin(a, b) == IF NumLt(b, a) THEN b ELSE a

NumMax(a, b) == IF NumLt(a, b) THEN b ELSE a

(***************************************************************************)
(* list.sort(key=..., reverse=True): a stable sort, entries of equal key   *)
(* keep the order they had.  The argument is a sequence of records         *)
(* [k |-> key, v |-> value].                                               *)
(***************************************************************************)
RECURSIVE InsertDesc(_, _)
InsertDesc(sorted, x) ==
  IF sorted = <<>> THEN <<x>>
  ELSE IF NumLt(Head(sorted).k, x.k)
       THEN <<x>> \o sorted
       ELSE <<Head(sorted)>> \o InsertDesc(Tail(sorted), x)

RECURSIVE SortDescFrom(_, _)
SortDescFrom(done, rest) ==
  IF rest = <<>> THEN done
  ELSE SortDescFrom(InsertDesc(done, Head(rest)), Tail(rest))

StableSortDesc(s) == SortDescFrom(<<>>, s)

Values(s) == [i \in 1..Len(s) |-> s[i].v]

(***************************************************************************)
(* Float arithmetic of the rule-based crop scorer.  A score is a sum of    *)
(* the literals 0.2, 0.15, 0.1, 0.05 taken in the order of the source, in  *)
(* hundredths: Num(n, 100, d).  The doubles these sums produce are not all *)
(* the doubles nearest to n/100; the cases below are the additions whose   *)
(* IEEE result changes side.                                               *)
(***************************************************************************)
\* score += w      (w in hundredths)
FAdd(x, w) ==
  LET c == <<x.n, x.d, w>>
      d == CASE c = <<10, 0, 5>>   -> 1
             [] c = <<20, 0, 10>>  -> 1
             [] c = <<30, 0, 15>>  -> -1
             [] c = <<35, 0, 5>>   -> -1
             [] c = <<35, 0, 10>>  -> -1
             [] c = <<55, -1, 5>>  -> 0
             [] c = <<55, 0, 5>>   -> 1
             [] c = <<55, 0, 15>>  -> 1
             [] c = <<65, 0, 5>>   -> 1
             [] c = <<70, 0, 10>>  -> -1
             [] c = <<70, 1, 10>>  -> 0
             [] c = <<80, -1, 5>>  -> 0
             [] c = <<80, 0, 5>>   -> 1
             [] OTHER              -> x.d
  IN Num(x.n + w, 100, d)

\* score * 100
FMul100(x) ==
  LET c == <<x.n, x.d>>
      d == CASE c = <<35, 1>>  -> 0
             [] c = <<40, -1>> -> 0
             [] c = <<55, 0>>  -> 1
             [] c = <<70, 1>>  -> 0
             [] c = <<80, -1>> -> 0
             [] OTHER          -> x.d
  IN Num(x.n, 1, d)

\* confidence / 100
FDiv100(x) ==
  LET d == IF <<x.n, x.d>> = <<55, 1>> THEN 0 ELSE x.d
  IN Num(x.n, 100, d)

(***************************************************************************)
(* Crop requests.  ph10 is the pH in tenths.  NaN is float('nan'), which   *)
(* float() parses and for which every comparison is false.                 *)
(***************************************************************************)
NaN == -999

\* lo <= x <= hi in Python floats
Between(lo, x, hi) == x # NaN /\ lo <= x /\ x <= hi

CropInput(n, p, k, t, h, ph10, r) ==
  [nitrogen |-> n, phosphorous |-> p, potassium |-> k, temperature |-> t,
   humidity |-> h, ph10 |-> ph10, rainfall |-> r]

(***************************************************************************)
(* generate_fallback_recommendations: the rule-based crop scorer.          *)
(***************************************************************************)
CropCatalog == <<
  [name |-> <<"R","i","c","e">>,
   N |-> <<80, 120>>, P |-> <<35, 60>>, K |-> <<35, 45>>, T |-> <<20, 30>>,
   H |-> <<80, 95>>, PH |-> <<55, 70>>, R |-> <<150, 300>>],
  [name |-> <<"W","h","e","a","t">>,
   N |-> <<70, 100>>, P |-> <<40, 60>>, K |-> <<35, 50>>, T |-> <<15, 25>>,
   H |-> <<55, 75>>, PH |-> <<60, 75>>, R |-> <<75, 180>>],
  [name |-> <<"M","a","i","z","e">>,
   N |-> <<70, 100>>, P |-> <<40, 60>>, K |-> <<15, 25>>, T |-> <<18, 27>>,
   H |-> <<55, 75>>, PH |-> <<55, 70>>, R |-> <<60, 110>>],
  [name |-> <<"C","o","t","t","o","n">>,
   N |-> <<100, 150>>, P |-> <<35, 60>>, K |-> <<15, 30>>, T |-> <<21, 30>>,
   H |-> <<70, 85>>, PH |-> <<58, 80>>, R |-> <<50, 100>>],
  [name |-> <<"J","u","t","e">>,
   N |-> <<60, 100>>, P |-> <<35, 60>>, K |-> <<35, 50>>, T |-> <<24, 37>>,
   H |-> <<80, 95>>, PH |-> <<60, 75>>, R |-> <<120, 200>>],
  [name |-> <<"B","a","n","a","n","a">>,
   N |-> <<80, 120>>, P |-> <<70, 100>>, K |-> <<45, 60>>, T |-> <<26, 32>>,
   H |-> <<75, 90>>, PH |-> <<65, 75>>, R |-> <<75, 150>>] >>

\* a variant of Credit: the range excludes its two ends
CreditExclusive(score, lo, x, hi, w) ==
  IF x # NaN /\ lo < x /\ x < hi THEN FAdd(score, w) ELSE score

\* the seven `if lo <= x <= hi: score += w' lines of one crop
\* if lo <= x <= hi: score += w
Credit(score, lo, x, hi, w) == IF Between(lo, x, hi) THEN FAdd(score, w) ELSE score

\* the score of catalog crop c: the seven range checks in the code's order
CropScore(c, in) ==
  Credit(
    Credit(
      Credit(
        Credit(
          Credit(
            Credit(
              Credit(Q(0, 100), c.N[1], in.nitrogen, c.N[2], 20),
              c.P[1], in.phosphorous, c.P[2], 15),
            c.K[1], in.potassium, c.K[2], 15),
          c.T[1], in.temperature, c.T[2], 20),
        c.H[1], in.humidity, c.H[2], 15),
      c.PH[1], in.ph10, c.PH[2], 10),
    c.R[1], in.rainfall, c.R[2], 5)

\* a variant of CropConfidence: confidence = score * 100
CropConfidenceUnclamped(score) == FMul100(score)

\* confidence = min(max(score * 100, 30), 95)
CropConfidence(score) == NumMin(NumMax(FMul100(score), Q(30, 1)), Q(95, 1))

\* a variant of CropRulePriority: the thresholds are exclusive
CropRulePriorityExclusive(confidence) ==
  IF NumLt(Q(70, 1), confidence) THEN "High"
  ELSE IF NumLt(Q(50, 1), confidence) THEN "Medium"
  ELSE "Low"

\* lines 221-226: priority from the clamped confidence
CropRulePriority(confidence) ==
  IF NumLe(Q(70, 1), confidence) THEN "High"
  ELSE IF NumLe(Q(50, 1), confidence) THEN "Medium"
  ELSE "Low"

\* the entry appended for a crop of confidence `confidence`
CropRuleRecord(name, confidence) ==
  [name |-> name,
   probability |-> FDiv100(confidence),
   confidence_percentage |-> confidence,
   priority |-> CropRulePriority(confidence)]

CropRuleEntry(name, score) == CropRuleRecord(name, CropConfidence(score))

\* a variant of CropsScoresSorted: the sort is ascending
CropsScoresAscending(in) ==
  Reverse(StableSortDesc([i \in 1..Len(CropCatalog) |->
                            [k |-> CropScore(CropCatalog[i], in),
                             v |-> CropCatalog[i].name]]))

\* crops_scores after crops_scores.sort(key=lambda x: x[1], reverse=True)
CropsScoresSorted(in) ==
  StableSortDesc([i \in 1..Len(CropCatalog) |->
                    [k |-> CropScore(CropCatalog[i], in),
                     v |-> CropCatalog[i].name]])

\* the loop over the sorted (crop, score) pairs
CropRuleEntries(sorted) ==
  [i \in 1..Len(sorted) |-> CropRuleEntry(sorted[i].v, sorted[i].k)]

generate_fallback_recommendations(in) == CropRuleEntries(CropsScoresSorted(in))

(***************************************************************************)
(* CropPredictor (model_integration.py).                                   *)
(***************************************************************************)
\* model.classes_ of the trained crop classifier: the labels of the
\* training set, lower case, in sorted order
CropLabelUniverse == <<
  <<"b","a","n","a","n","a">>,
  <<"c","o","t","t","o","n">>,
  <<"l","e","n","t","i","l">>,
  <<"m","a","i","z","e">>,
  <<"m","a","n","g","o">>,
  <<"r","i","c","e">>,
  <<"s","o","y","a","b","e","a","n">>,
  <<"w","h","e","a","t">>,
  <<"w","h","e","a","t","g","r","a","s","s">> >>

class_names == Take(CropLabelUniverse, NumCropLabels)

\* what load_model finds on disk and on the import path
CropEnv(joblib, model_file, scaler_file, simple_module) ==
  [joblib |-> joblib, model_file |-> model_file, scaler_file |-> scaler_file,
   simple_module |-> simple_module]

CropEnvs ==
  { CropEnv(TRUE, "ok", "ok", "absent"),
    CropEnv(TRUE, "mismatch", "ok", "absent"),
    CropEnv(TRUE, "ok", "corrupt", "absent"),
    CropEnv(TRUE, "absent", "absent", "absent"),
    CropEnv(FALSE, "ok", "ok", "ok") }

\* CropPredictor.__init__ followed by load_model
load_model(env) ==
  LET both    == env.model_file # "absent" /\ env.scaler_file # "absent"
      try     == env.joblib /\ both
      modelOk == try /\ env.model_file # "corrupt"
      allOk   == modelOk /\ env.scaler_file # "corrupt"
  IN [model       |-> IF modelOk THEN env.model_file ELSE "None",
      scaler      |-> IF allOk THEN env.scaler_file ELSE "None",
      use_sklearn |-> allOk,
      simple_model |-> IF ~allOk /\ env.simple_module = "ok"
                       THEN "simple_crop_predictor" ELSE "unset"]

\* the class probabilities a classifier can return: one multiple of
\* 1/ProbUnits per label, summing to 1
RECURSIVE Distributions(_, _)
Distributions(len, total) ==
  IF len = 0 THEN (IF total = 0 THEN {<<>>} ELSE {})
  ELSE UNION {{<<k>> \o r : r \in Distributions(len - 1, total - k)} :
              k \in 0..total}

CropProbVectors == Distributions(NumCropLabels, ProbUnits)

\* a variant of ArgMax: the last index of maximal probability
ArgMaxLast(probs) ==
  CHOOSE i \in 1..Len(probs) :
    /\ \A j \in 1..Len(probs) : probs[j] <= probs[i]
    /\ \A j \in (i + 1)..Len(probs) : probs[j] < probs[i]

\* np.argmax: the first index of maximal probability
ArgMax(probs) ==
  CHOOSE i \in 1..Len(probs) :
    /\ \A j \in 1..Len(probs) : probs[j] <= probs[i]
    /\ \A j \in 1..(i - 1) : probs[j] < probs[i]

\* 'High' if prob > 0.7 else 'Medium' if prob > 0.4 else 'Low'
CropStatPriority(p) ==
  IF 10 * p > 7 * ProbUnits THEN "High"
  ELSE IF 10 * p > 4 * ProbUnits THEN "Medium"
  ELSE "Low"

CropStatEntry(label, p) ==
  [name |-> StrCapitalize(label),
   probability |-> Q(p, ProbUnits),
   confidence_percentage |-> Q(100 * p, ProbUnits),
   priority |-> CropStatPriority(p)]

\* crop_probabilities after the sort by probability, reverse=True
CropProbabilitiesSorted(probs) ==
  Values(StableSortDesc([i \in 1..Len(class_names) |->
           [k |-> Q(probs[i], ProbUnits),
            v |-> CropStatEntry(class_names[i], probs[i])]]))

\* the return value of the sklearn branch
SklearnResult(in, probs) ==
  [recommended_crop |-> StrCapitalize(class_names[ArgMax(probs)]),
   top_recommendations |-> Take(CropProbabilitiesSorted(probs), CropTopN),
   input_parameters |-> in]

\* a variant of HardcodedFallback: the list without its last entry and the
\* inputs not echoed
HardcodedFallbackShort(in) ==
  [recommended_crop |-> <<"R","i","c","e">>,
   top_recommendations |-> <<
     [name |-> <<"R","i","c","e">>, probability |-> Q(85, 100),
      confidence_percentage |-> Q(85, 1), priority |-> "High"],
     [name |-> <<"W","h","e","a","t">>, probability |-> Q(70, 100),
      confidence_percentage |-> Q(70, 1), priority |-> "Medium"] >>,
   input_parameters |-> <<>>]

\* the return value of the except branch
HardcodedFallback(in) ==
  [recommended_crop |-> <<"R","i","c","e">>,
   top_recommendations |-> <<
     [name |-> <<"R","i","c","e">>, probability |-> Q(85, 100),
      confidence_percentage |-> Q(85, 1), priority |-> "High"],
     [name |-> <<"W","h","e","a","t">>, probability |-> Q(70, 100),
      confidence_percentage |-> Q(70, 1), priority |-> "Medium"],
     [name |-> <<"M","a","i","z","e">>, probability |-> Q(60, 100),
      confidence_percentage |-> Q(60, 1), priority |-> "Medium"] >>,
   input_parameters |-> in]

\* simple_crop_predictor.predict_crop_recommendation: the rule-based range
\* scorer over the fixed catalog, in the result shape of the predictor
SimpleModelResult(top, in) ==
  [recommended_crop |-> top[1].name,
   top_recommendations |-> top,
   input_parameters |-> in]

SimpleModelPredict(in) ==
  SimpleModelResult(Take(generate_fallback_recommendations(in), CropTopN), in)

HasNaN(in) ==
  NaN \in {in.nitrogen, in.phosphorous, in.potassium, in.temperature,
           in.humidity, in.ph10, in.rainfall}

\* whether the try block of predict_crop_recommendation raises: the scaler
\* and the classifier reject NaN and a feature matrix of the wrong shape;
\* self.simple_model does not exist when its import failed
ScoringRaises(cp, in) ==
  IF cp.use_sklearn /\ cp.model # "None" /\ cp.scaler # "None"
  THEN cp.model = "mismatch" \/ HasNaN(in)
  ELSE cp.simple_model = "unset"

\* a variant of predict_crop_recommendation: the except branch returns a
\* result without recommendations
PredictWithoutFallback(cp, in, probs) ==
  IF ScoringRaises(cp, in)
  THEN [recommended_crop |-> <<>>, top_recommendations |-> <<>>,
        input_parameters |-> in]
  ELSE IF cp.use_sklearn /\ cp.model # "None" /\ cp.scaler # "None"
       THEN SklearnResult(in, probs)
       ELSE SimpleModelPredict(in)

\* CropPredictor.predict_crop_recommendation
predict_crop_recommendation(cp, in, probs) ==
  IF ScoringRaises(cp, in) THEN HardcodedFallback(in)
  ELSE IF cp.use_sklearn /\ cp.model # "None" /\ cp.scaler # "None"
       THEN SklearnResult(in, probs)
       ELSE SimpleModelPredict(in)

\* a variant of CropPredictorAfterPredict: a call that raised switches the
\* instance to the fallback mode
CropPredictorDemotedOnError(cp, in) ==
  IF ScoringRaises(cp, in) THEN [cp EXCEPT !.use_sklearn = FALSE] ELSE cp

\* the instance after a call of predict_crop_recommendation: neither the try
\* block nor the except branch assigns an attribute of self
CropPredictorAfterPredict(cp, in) == cp

(***************************************************************************)
(* Categorization.  A Python dict is a sequence of [category, items]       *)
(* entries in insertion order.                                             *)
(***************************************************************************)
CropCategories == <<
  [category |-> "Fruits",
   members |-> <<
     <<"a","p","p","l","e">>,
     <<"b","a","n","a","n","a">>,
     <<"g","r","a","p","e","s">>,
     <<"m","a","n","g","o">>,
     <<"m","u","s","k","m","e","l","o","n">>,
     <<"o","r","a","n","g","e">>,
     <<"p","a","p","a","y","a">>,
     <<"p","o","m","e","g","r","a","n","a","t","e">>,
     <<"w","a","t","e","r","m","e","l","o","n">>,
     <<"c","o","c","o","n","u","t">> >>],
  [category |-> "Pulses & Vegetables",
   members |-> <<
     <<"p","i","g","e","o","n","p","e","a","s">>,
     <<"k","i","d","n","e","y","b","e","a","n","s">>,
     <<"m","o","t","h","b","e","a","n","s">>,
     <<"m","u","n","g","b","e","a","n">>,
     <<"b","l","a","c","k","g","r","a","m">>,
     <<"l","e","n","t","i","l">>,
     <<"c","h","i","c","k","p","e","a">> >>],
  [category |-> "Grains & Cereals",
   members |-> <<
     <<"r","i","c","e">>,
     <<"w","h","e","a","t">>,
     <<"m","a","i","z","e">> >>],
  [category |-> "Commercial Crops",
   members |-> <<
     <<"c","o","t","t","o","n">>,
     <<"j","u","t","e">>,
     <<"c","o","f","f","e","e">>,
     <<"t","e","a">> >>] >>

\* a variant of get_crop_category: the name is looked up as given
get_crop_category_as_given(crop_name) ==
  LET hits == {i \in 1..Len(CropCategories) :
                 InList(crop_name, CropCategories[i].members)}
  IN IF hits = {} THEN "Other Crops"
     ELSE CropCategories[CHOOSE i \in hits : \A j \in hits : i <= j].category

\* get_crop_category
get_crop_category(crop_name) ==
  LET name == StrStrip(StrLower(crop_name))
      hits == {i \in 1..Len(CropCategories) :
                 InList(name, CropCategories[i].members)}
  IN IF hits = {} THEN "Other Crops"
     ELSE CropCategories[CHOOSE i \in hits : \A j \in hits : i <= j].category

HasKey(dict, key) == \E j \in 1..Len(dict) : dict[j].category = key

\* a variant of DictAppend: d[category].insert(0, rec)
DictPrepend(dict, key, rec) ==
  IF HasKey(dict, key)
  THEN [j \in 1..Len(dict) |->
          IF dict[j].category = key
          THEN [dict[j] EXCEPT !.items = <<rec>> \o @]
          ELSE dict[j]]
  ELSE Append(dict, [category |-> key, items |-> <<rec>>])

\* a variant of DictAppend: d[category] = [rec], also for a category present
DictAssign(dict, key, rec) ==
  IF HasKey(dict, key)
  THEN [j \in 1..Len(dict) |->
          IF dict[j].category = key
          THEN [dict[j] EXCEPT !.items = <<rec>>]
          ELSE dict[j]]
  ELSE Append(dict, [category |-> key, items |-> <<rec>>])

\* if category not in d: d[category] = []; d[category].append(rec)
DictAppend(dict, key, rec) ==
  IF HasKey(dict, key)
  THEN [j \in 1..Len(dict) |->
          IF dict[j].category = key
          THEN [dict[j] EXCEPT !.items = Append(@, rec)]
          ELSE dict[j]]
  ELSE Append(dict, [category |-> key, items |-> <<rec>>])

\* the grouping loop; cats[i] is the category of recs[i]
RECURSIVE GroupFrom(_, _, _, _)
GroupFrom(dict, recs, cats, i) ==
  IF i > Len(recs) THEN dict
  ELSE GroupFrom(DictAppend(dict, cats[i], recs[i]), recs, cats, i + 1)

\* {k: d[k] for k in preferred_order if k in d}
RECURSIVE PreferredPart(_, _)
PreferredPart(dict, preferred) ==
  IF preferred = <<>> THEN <<>>
  ELSE LET k == Head(preferred)
           rest == PreferredPart(dict, Tail(preferred))
       IN IF HasKey(dict, k)
          THEN <<dict[CHOOSE j \in 1..Len(dict) : dict[j].category = k]>> \o rest
          ELSE rest

\* a variant of SortCategories: the categories stay in first-seen order
SortCategoriesFirstSeen(dict, preferred) == dict

\* sorted_categorized: the preferred categories, then the remaining ones
SortCategories(dict, preferred) ==
  LET first == PreferredPart(dict, preferred)
  IN first \o SelectSeq(dict, LAMBDA e : ~HasKey(first, e.category))

CropPreferredOrder ==
  <<"Grains & Cereals", "Pulses & Vegetables", "Fruits", "Commercial Crops",
    "Other Crops">>

\* lines 86-103 of crop_suggestion
CategorizeCrops(recs) ==
  SortCategories(
    GroupFrom(<<>>, recs, [i \in 1..Len(recs) |-> get_crop_category(recs[i].name)], 1),
    CropPreferredOrder)

(***************************************************************************)
(* generate_fertilizer_recommendations: the rule-based fertilizer scorer.  *)
(* A score is kept exactly, in units of 1/300 point (100, 60 and 50, the   *)
(* divisors of the three nutrient credits, divide 300).                    *)
(***************************************************************************)
FertCandidates == <<
  [name |-> <<"U","r","e","a"," ","(","4","6","-","0","-","0",")">>,
   dosage |-> "50-100 kg/acre",
   usage |-> "Apply in split doses: 50% at sowing, 25% at tillering, 25% at flowering",
   note |-> "Best nitrogen source for rapid vegetative growth",
   n_content |-> 46, p_content |-> 0, k_content |-> 0],
  [name |-> <<"D","A","P"," ","(","1","8","-","4","6","-","0",")">>,
   dosage |-> "75-125 kg/acre",
   usage |-> "Apply at time of sowing or transplanting for root development",
   note |-> "Excellent phosphorus source, also provides nitrogen",
   n_content |-> 18, p_content |-> 46, k_content |-> 0],
  [name |-> <<"M","O","P"," ","(","0","-","0","-","6","0",")">>,
   dosage |-> "50-75 kg/acre",
   usage |-> "Apply during flowering and fruit formation stage",
   note |-> "High potassium for fruit quality and disease resistance",
   n_content |-> 0, p_content |-> 0, k_content |-> 60],
  [name |-> <<"N","P","K"," ","1","9","-","1","9","-","1","9">>,
   dosage |-> "100-150 kg/acre",
   usage |-> "Apply as basal dose or during active growth phase",
   note |-> "Balanced fertilizer for overall plant nutrition",
   n_content |-> 19, p_content |-> 19, k_content |-> 19],
  [name |-> <<"N","P","K"," ","2","0","-","2","0","-","0","-","1","3">>,
   dosage |-> "125-175 kg/acre",
   usage |-> "Apply when both N and P are needed with sulfur benefit",
   note |-> "Contains sulfur (13%) for protein synthesis",
   n_content |-> 20, p_content |-> 20, k_content |-> 0],
  [name |-> <<"S","i","n","g","l","e"," ","S","u","p","e","r"," ","P","h","o","s","p","h","a","t","e">>,
   dosage |-> "100-200 kg/acre",
   usage |-> "Mix with soil before planting for root development",
   note |-> "Provides phosphorus and sulfur for early growth",
   n_content |-> 0, p_content |-> 16, k_content |-> 0],
  [name |-> <<"O","r","g","a","n","i","c"," ","C","o","m","p","o","s","t">>,
   dosage |-> "2-5 tons/acre",
   usage |-> "Apply 2-3 weeks before sowing and mix well with soil",
   note |-> "Improves soil structure, water retention, and microbial activity",
   n_content |-> 2, p_content |-> 1, k_content |-> 1] >>

Min(a, b) == IF b < a THEN b ELSE a

Max(a, b) == IF a < b THEN b ELSE a

\* a variant of Round1: the score is cut to its tenths
Round1Down(score, up) == score \div 30

\* round(final_score, 1), in tenths, of a score in units of 1/300.  A score
\* half-way between two tenths is no double: the double that stands for it
\* lies on one side, which the exact score does not tell, and round() goes
\* to that side: up says which
Round1(score, up) ==
  LET q == score \div 30
      r == score % 30
  IN IF r < 15 THEN q
     ELSE IF r > 15 THEN q + 1
     ELSE IF up THEN q + 1 ELSE q

FertPriority(confidence10) ==
  IF confidence10 >= 700 THEN "High"
  ELSE IF confidence10 >= 450 THEN "Medium"
  ELSE "Low"

One(b) == IF b THEN 1 ELSE 0

\* the body of the loop over candidates: the score of one fertilizer
FertScore(fertilizer, crop_type, n, p, k, temperature, soil_moisture) ==
  LET n_deficit == Max(0, 100 - n)
      p_deficit == Max(0, 60 - p)
      k_deficit == Max(0, 50 - k)
      dry_soil  == NumLt(soil_moisture, Q(40, 1))
      wet_soil  == NumLt(Q(70, 1), soil_moisture)
      high_temp == temperature > 30
      low_temp  == temperature < 15
      name      == fertilizer.name
      nutrient  ==
          (IF n_deficit > 0 /\ fertilizer.n_content > 0
           THEN Min(30 * 300, 3 * n_deficit * fertilizer.n_content) ELSE 0)
        + (IF p_deficit > 0 /\ fertilizer.p_content > 0
           THEN Min(25 * 300, 5 * p_deficit * fertilizer.p_content) ELSE 0)
        + (IF k_deficit > 0 /\ fertilizer.k_content > 0
           THEN Min(15 * 300, 6 * k_deficit * fertilizer.k_content) ELSE 0)
      deficits  == One(n_deficit > 20) + One(p_deficit > 15) + One(k_deficit > 15)
      balanced  == IF deficits >= 2 /\ StrContains(name, <<"N","P","K">>)
                   THEN 15 ELSE 0
      environment ==
          (IF dry_soil /\ StrContains(name, <<"O","r","g","a","n","i","c">>)
           THEN 10 ELSE 0)
        + (IF wet_soil /\ ~StrContains(name, <<"U","r","e","a">>) THEN 5 ELSE 0)
        + (IF high_temp /\ fertilizer.k_content > 0 THEN 5 ELSE 0)
        + (IF low_temp /\ StrContains(name, <<"D","A","P">>) THEN 5 ELSE 0)
      crop_lower == StrLower(crop_type)
      crop_bonus ==
          (IF /\ \/ StrContains(crop_lower, <<"r","i","c","e">>)
                 \/ StrContains(crop_lower, <<"w","h","e","a","t">>)
              /\ StrContains(name, <<"U","r","e","a">>)
           THEN 8 ELSE 0)
        + (IF /\ \/ StrContains(crop_lower, <<"p","o","t","a","t","o">>)
                 \/ StrContains(crop_lower, <<"t","o","m","a","t","o">>)
              /\ fertilizer.k_content > 0
           THEN 8 ELSE 0)
        + (IF /\ \/ StrContains(crop_lower, <<"l","e","g","u","m","e">>)
                 \/ StrContains(crop_lower, <<"p","u","l","s","e">>)
              /\ fertilizer.p_content > 0
           THEN 8 ELSE 0)
  IN nutrient + 300 * (balanced + environment + crop_bonus)

FertRuleEntry(fertilizer, score, up) ==
  LET final_score == Min(100 * 300, score)
      confidence10 == Round1(final_score, up)
  IN [name |-> fertilizer.name,
      dosage |-> fertilizer.dosage,
      usage |-> fertilizer.usage,
      note |-> fertilizer.note,
      probability |-> Q(final_score, 30000),
      confidence_percentage |-> Q(confidence10, 10),
      priority |-> FertPriority(confidence10)]

\* the candidates whose final score is half-way between two tenths
HalfWay(crop_type, n, p, k, temperature, soil_moisture) ==
  {i \in 1..Len(FertCandidates) :
     Min(100 * 300, FertScore(FertCandidates[i], crop_type, n, p, k,
                              temperature, soil_moisture)) % 30 = 15}

\* recommendations after the sort by confidence_percentage, reverse=True;
\* ups: the candidates whose half-way score round() takes up
FertRecommendationsSorted(crop_type, n, p, k, temperature, soil_moisture, ups) ==
  Values(StableSortDesc([i \in 1..Len(FertCandidates) |->
    LET e == FertRuleEntry(FertCandidates[i],
               FertScore(FertCandidates[i], crop_type, n, p, k, temperature,
                         soil_moisture),
               i \in ups)
    IN [k |-> e.confidence_percentage, v |-> e]]))

\* a variant of generate_fertilizer_recommendations: return recommendations,
\* without the slice
FertRecommendationsUnsliced(crop_type, n, p, k, temperature, soil_moisture, ups) ==
  FertRecommendationsSorted(crop_type, n, p, k, temperature, soil_moisture, ups)

\* return recommendations[:6]
generate_fertilizer_recommendations(crop_type, n, p, k, temperature, soil_moisture, ups) ==
  Take(FertRecommendationsSorted(crop_type, n, p, k, temperature,
                                 soil_moisture, ups), FertTopN)

FertCategories == <<
  [category |-> "Nitrogenous",
   members |-> <<
     <<"u","r","e","a">>,
     <<"a","m","m","o","n","i","u","m"," ","s","u","l","f","a","t","e">>,
     <<"c","a","l","c","i","u","m"," ","a","m","m","o","n","i","u","m"," ","n","i","t","r","a","t","e">> >>],
  [category |-> "Phosphatic",
   members |-> <<
     <<"d","a","p">>,
     <<"s","i","n","g","l","e"," ","s","u","p","e","r"," ","p","h","o","s","p","h","a","t","e">>,
     <<"t","r","i","p","l","e"," ","s","u","p","e","r"," ","p","h","o","s","p","h","a","t","e">> >>],
  [category |-> "Potassic",
   members |-> <<
     <<"m","o","p">>,
     <<"m","u","r","i","a","t","e"," ","o","f"," ","p","o","t","a","s","h">>,
     <<"s","u","l","f","a","t","e"," ","o","f"," ","p","o","t","a","s","h">> >>],
  [category |-> "Complex (NPK)",
   members |-> <<
     <<"n","p","k">>,
     <<"b","a","l","a","n","c","e","d"," ","n","p","k"," ","f","e","r","t","i","l","i","z","e","r">>,
     <<"1","9","-","1","9","-","1","9">>,
     <<"2","0","-","2","0","-","0","-","1","3">>,
     <<"1","0","-","2","6","-","2","6">> >>],
  [category |-> "Organic & Soil Amendments",
   members |-> <<
     <<"c","o","m","p","o","s","t">>,
     <<"o","r","g","a","n","i","c"," ","f","e","r","t","i","l","i","z","e","r">>,
     <<"l","i","m","e">>,
     <<"g","y","p","s","u","m">>,
     <<"w","a","t","e","r"," ","r","e","t","a","i","n","i","n","g"," ","f","e","r","t","i","l","i","z","e","r">> >>] >>

\* get_fertilizer_category
get_fertilizer_category(fetilizer_name) ==
  LET name == StrStrip(StrLower(fetilizer_name))
      hits == {i \in 1..Len(FertCategories) :
                 \E m \in 1..Len(FertCategories[i].members) :
                   StrContains(name, FertCategories[i].members[m])}
  IN IF hits = {} THEN "Other Fertilizers"
     ELSE FertCategories[CHOOSE i \in hits : \A j \in hits : i <= j].category

FertPreferredOrder ==
  <<"Organic & Soil Amendments", "Complex (NPK)", "Nitrogenous", "Phosphatic",
    "Potassic", "Other Fertilizers">>

\* lines 263-278 of fertilizer_recommend
CategorizeFertilizers(recs) ==
  SortCategories(
    GroupFrom(<<>>, recs,
              [i \in 1..Len(recs) |-> get_fertilizer_category(recs[i].name)], 1),
    FertPreferredOrder)

(***************************************************************************)
(* FertilizerPredictor (predict.py) and the knowledge base                 *)
(* (get_fertilizer_details.py).                                            *)
(***************************************************************************)
\* target_encoder.classes_: the fertilizer labels of the training set, in
\* sorted order
FertLabelUniverse == <<
  <<"C","o","m","p","o","s","t">>,
  <<"D","A","P">>,
  <<"G","y","p","s","u","m">>,
  <<"L","i","m","e">>,
  <<"M","O","P">>,
  <<"N","P","K">>,
  <<"O","r","g","a","n","i","c"," ","F","e","r","t","i","l","i","z","e","r">>,
  <<"U","r","e","a">>,
  <<"Z","i","n","c"," ","S","u","l","p","h","a","t","e">> >>

fert_labels == Take(FertLabelUniverse, NumFertLabels)

\* label_encoders['Soil'].classes_ and label_encoders['Crop'].classes_
SoilClasses == {"Loamy Soil", "Sandy Soil"}

CropClasses == { <<"r","i","c","e">>, <<"P","o","t","a","t","o">> }

\* ml_predictor = None
NoPredictor ==
  [model |-> "None", label_encoders |-> [Soil |-> {}, Crop |-> {}],
   target_encoder |-> <<>>, scaler |-> "None"]

\* FertilizerPredictor() at import of fertilizer_routes: load_model re-raises
\* when an artifact cannot be loaded, and the import keeps None
LoadFertilizerPredictor(artifacts) ==
  IF artifacts = "ok"
  THEN [model |-> "fertilizer_model.pkl",
        label_encoders |-> [Soil |-> SoilClasses, Crop |-> CropClasses],
        target_encoder |-> fert_labels,
        scaler |-> "scaler.pkl"]
  ELSE NoPredictor

FertProbVectors == Distributions(NumFertLabels, ProbUnits)

\* np.argsort(probabilities): the indices in ascending order of probability.
\* The default kind is not a stable sort, so the order of equal
\* probabilities is not fixed: ascending index (stable) or descending
RECURSIVE ArgsortFrom(_, _, _)
ArgsortFrom(idx, probs, stable) ==
  IF idx = {} THEN <<>>
  ELSE LET first == CHOOSE i \in idx : \A j \in idx \ {i} :
                      \/ probs[i] < probs[j]
                      \/ probs[i] = probs[j] /\ (IF stable THEN i < j ELSE j < i)
       IN <<first>> \o ArgsortFrom(idx \ {first}, probs, stable)

Argsort(probs, stable) == ArgsortFrom(1..Len(probs), probs, stable)

\* top_n_idx = np.argsort(probabilities)[-6:][::-1]
TopNIdx(probs, stable) == Reverse(TakeLast(Argsort(probs, stable), PredictTopN))

DosageMap == <<
  [key |-> <<"U","r","e","a">>, dosage |-> "20-30 kg/acre"],
  [key |-> <<"D","A","P">>, dosage |-> "15-25 kg/acre"],
  [key |-> <<"N","P","K">>, dosage |-> "40-60 kg/acre"],
  [key |-> <<"B","a","l","a","n","c","e","d"," ","N","P","K"," ","F","e","r","t","i","l","i","z","e","r">>, dosage |-> "40-60 kg/acre"],
  [key |-> <<"M","O","P">>, dosage |-> "15-30 kg/acre"],
  [key |-> <<"M","u","r","i","a","t","e"," ","o","f"," ","P","o","t","a","s","h">>, dosage |-> "15-30 kg/acre"],
  [key |-> <<"C","o","m","p","o","s","t">>, dosage |-> "2-3 ton/acre"],
  [key |-> <<"O","r","g","a","n","i","c"," ","F","e","r","t","i","l","i","z","e","r">>, dosage |-> "1-2 ton/acre"],
  [key |-> <<"L","i","m","e">>, dosage |-> "0.5-1 ton/acre"],
  [key |-> <<"G","y","p","s","u","m">>, dosage |-> "0.3-0.5 ton/acre"],
  [key |-> <<"W","a","t","e","r"," ","R","e","t","a","i","n","i","n","g"," ","F","e","r","t","i","l","i","z","e","r">>, dosage |-> "10-20 kg/acre"] >>

\* FertilizerDetails._calculate_dosage
calculate_dosage(fertilizer) ==
  IF \E i \in 1..Len(DosageMap) : DosageMap[i].key = fertilizer
  THEN DosageMap[CHOOSE i \in 1..Len(DosageMap) : DosageMap[i].key = fertilizer].dosage
  ELSE "20-40 kg/acre"

\* FertilizerDetails.get_details for a label of the data set; the remark,
\* the effectiveness and the use case are statistics of the data set
get_details(fertilizer_name) ==
  [name |-> fertilizer_name, remark |-> "remark of the data set",
   effectiveness |-> "effectiveness of the data set",
   dosage |-> calculate_dosage(fertilizer_name),
   use_case |-> "use case of the data set"]

FertArgs(temperature, moisture, nitrogen, phosphorous, potassium, soil, crop) ==
  [temperature |-> temperature, moisture |-> moisture, nitrogen |-> nitrogen,
   phosphorous |-> phosphorous, potassium |-> potassium, soil |-> soil,
   crop |-> crop]

\* the exception the try block of predict raises, "" when it raises none:
\* LabelEncoder.transform rejects a label it was not fitted on, and
\* get_fertilizer_details() reads the data set when no instance exists yet
PredictError(pred, details, dataset, a) ==
  IF a.soil \notin pred.label_encoders.Soil
    THEN "y contains previously unseen labels: Soil"
  ELSE IF a.crop \notin pred.label_encoders.Crop
    THEN "y contains previously unseen labels: Crop"
  ELSE IF details = "None" /\ dataset # "ok"
    THEN "No such file or directory: fertilizer_recommendation_dataset.csv"
  ELSE ""

\* the except branch: {'success': False, 'error': str(e)}
FailedPrediction(error) == [success |-> FALSE, error |-> error]

\* FertilizerPredictor.predict
predict(pred, details, dataset, a, probs, stable) ==
  LET error == PredictError(pred, details, dataset, a)
      fertilizer == pred.target_encoder[ArgMax(probs)]
      top_n_idx == TopNIdx(probs, stable)
      index == CHOOSE i \in 1..Len(pred.target_encoder) :
                 pred.target_encoder[i] = fertilizer
  IN IF error # "" THEN FailedPrediction(error)
     ELSE [success |-> TRUE,
           error |-> "",
           recommended_fertilizer |-> fertilizer,
           confidence |-> Q(100 * probs[index], ProbUnits),
           dosage |-> get_details(fertilizer).dosage,
           top_recommendations |->
             [i \in 1..Len(top_n_idx) |->
                LET fert == pred.target_encoder[top_n_idx[i]]
                IN [fertilizer |-> fert,
                    confidence |-> Q(100 * probs[top_n_idx[i]], ProbUnits),
                    rank |-> i,
                    effectiveness |-> get_details(fert).effectiveness,
                    dosage |-> get_details(fert).dosage,
                    use |-> get_details(fert).use_case,
                    notes |-> get_details(fert).remark]]]

\* a variant of PredictorAfterPredict: a rejected label leaves the predictor
\* unloaded
PredictorDroppedOnError(pred, a) ==
  IF /\ a.soil \in pred.label_encoders.Soil
     /\ a.crop \in pred.label_encoders.Crop
  THEN pred ELSE NoPredictor

\* the predictor after a call of predict: no statement of predict assigns an
\* attribute of self, and LabelEncoder.transform, scaler.transform and
\* predict_proba do not modify their objects
PredictorAfterPredict(pred, a) == pred

\* the global _fertilizer_details after a call of predict
DetailsAfterPredict(pred, details, dataset, a) ==
  IF /\ a.soil \in pred.label_encoders.Soil
     /\ a.crop \in pred.label_encoders.Crop
     /\ dataset = "ok"
  THEN "FertilizerDetails" ELSE details

(***************************************************************************)
(* The requests the model sends.                                           *)
(***************************************************************************)
\* forms of POST /crop/suggestion and bodies of POST /api/crop/predict
CropRequests ==
  { CropInput(100, 45, 40, 25, 85, 62, 200),
    CropInput(75, 45, 40, 25, 60, 62, 200),
    CropInput(10, 80, 20, 40, 60, 40, 90),
    CropInput(100, NaN, 40, 25, 85, 62, 200),
    CropInput(250, 45, 40, 25, 85, 62, 200),
    CropInput(100, 45, 40, 25, 120, 62, 200),
    CropInput(100, 45, 40, 25, 85, 20, 200) }

\* arguments of direct calls of generate_fallback_recommendations
CropScorerInputs ==
  { CropInput(n, p, k, t, h, ph10, r) :
      n \in {10, 75, 100}, p \in {45, 80}, k \in {20, 40}, t \in {25, 40},
      h \in {60, 85}, ph10 \in {40, 62}, r \in {90, 200} }

\* forms of POST /fertilizer/recommend.  fields: which of the two moisture
\* fields the form carries; their values are in hundredths (3000 is "30",
\* 30 is "0.3")
FertForm(fields, humidity, moisture, temperature, n, p, k, soil, crop) ==
  [fields |-> fields, humidity |-> humidity, moisture |-> moisture,
   temperature |-> temperature, nitrogen |-> n, phosphorous |-> p,
   potassium |-> k, soil |-> soil, crop |-> crop]

FertForms ==
  { FertForm(f[1], f[2], f[3], 25, 8, 58, 60, "Loamy Soil", <<"r","i","c","e">>) :
      f \in { <<{"humidity"}, 3000, 0>>, <<{"humidity"}, 8000, 0>>,
              <<{"moisture"}, 0, 3000>>, <<{"humidity", "moisture"}, 5000, 3000>>,
              <<{}, 0, 0>> } }
  \cup
  { FertForm({"humidity"}, 3000, 0, t, npk[1], npk[2], npk[3], sc[1], sc[2]) :
      t \in {25, 35},
      npk \in { <<40, 20, 10>>, <<95, 59, 60>> },
      sc \in { <<"Loamy Soil", <<"P","o","t","a","t","o">>>>,
               <<"Peaty Soil", <<"r","i","c","e">>>>,
               <<"Sandy Soil", <<"p","u","l","s","e","s">>>> } }

\* arguments of direct calls of get_crop_category
CropNames ==
  { <<"R","i","c","e">>,
    <<"M","a","n","g","o">>,
    <<"U","n","k","n","o","w","n","C","r","o","p","X","Y","Z">>,
    <<" "," ","R","i","c","e"," ">>,
    <<"R","I","C","E">>,
    <<"T","e","a">>,
    <<"B","a","s","m","a","t","i"," ","R","i","c","e">>,
    <<"w","h","e","a","t","g","r","a","s","s">>,
    <<"P","i","g","e","o","n","P","e","a","s">>,
    <<"j","u","t","e">> }

\* arguments of direct calls of get_fertilizer_category
FertilizerNames ==
  { <<"U","r","e","a"," ","(","4","6","-","0","-","0",")">>,
    <<"D","A","P">>,
    <<"M","O","P"," ","(","0","-","0","-","6","0",")">>,
    <<"N","P","K"," ","1","9","-","1","9","-","1","9">>,
    <<"Z","i","n","c"," ","S","u","l","p","h","a","t","e">>,
    <<" ","V","e","r","m","i"," ","C","O","M","P","O","S","T"," ">>,
    <<"L","I","M","E">>,
    <<"S","i","n","g","l","e"," ","S","u","p","e","r"," ","P","h","o","s","p","h","a","t","e">>,
    <<"U","r","e","a","-","D","A","P"," ","b","l","e","n","d">>,
    <<"O","r","g","a","n","i","c"," ","C","o","m","p","o","s","t">> }

\* arguments of direct calls of generate_fertilizer_recommendations
FertScorerInputs ==
  { [crop_type |-> c, n |-> n, p |-> p, k |-> k, temperature |-> t,
     soil_moisture |-> Q(m, 1)] :
      c \in { <<"r","i","c","e">>, <<"P","o","t","a","t","o">>, <<"p","u","l","s","e","s">>, <<"m","a","i","z","e">> },
      n \in {8, 40, 95}, p \in {20, 58}, k \in {10, 60},
      t \in {25, 35}, m \in {30, 80} }

(***************************************************************************)
(* State.                                                                  *)
(***************************************************************************)
VARIABLES
  crop_predictor,      \* model_integration.crop_predictor
  ml_predictor,        \* fertilizer_routes.ml_predictor
  fertilizer_details,  \* get_fertilizer_details._fertilizer_details
  dataset,             \* datasets/fertilizer_recommendation_dataset.csv
  unseen_before,       \* history: predict has met an unseen category
  raised_before,       \* history: predict_crop_recommendation has raised
  request,             \* the request or call served last
  response             \* what it returned

\* the lazily created module globals and the threads that ask for them
VARIABLES
  instances,           \* predict.predictor and get_fertilizer_details._fertilizer_details
  constructed,         \* history: how often each constructor has run
  thread               \* each thread's call, position and locals

lazy_vars == <<instances, constructed, thread>>

\* the password reset of auth_routes
VARIABLES
  reset_tokens,        \* auth_routes.reset_tokens: token -> email and expiry
  users_file,          \* data/users.json: email -> stored password
  now,                 \* datetime.now(), in half hours
  issued,              \* history: how many tokens forgot_password has made
  updates              \* history: password updates made through each token

auth_vars == <<reset_tokens, users_file, now, issued, updates>>

\* the file store of utils/db
VARIABLES
  files,               \* data/fertilizers.json and data/growing_activities.json
  caller               \* each thread's call on the file store and its position

store_vars == <<files, caller>>

\* the state of the subsystems a scoring request does not touch
side_vars == <<lazy_vars, auth_vars, store_vars>>

main_vars == <<crop_predictor, ml_predictor, fertilizer_details, dataset,
               unseen_before, raised_before, request, response>>

vars == <<main_vars, side_vars>>

Flash(message, category) == [message |-> message, category |-> category]

\* what a handler or a call returned: kind is "render", "redirect", "json" or
\* "return"; scored: the scoring functions it called; crop_result and
\* ml_result: the predictors' return values, if called
Response(kind, status, recommendations, categorized, flashes, scored, crop_result, ml_result) ==
  [kind |-> kind, status |-> status, recommendations |-> recommendations,
   categorized |-> categorized, flashes |-> flashes, scored |-> scored,
   crop_result |-> crop_result, ml_result |-> ml_result, value |-> ""]

\* what a direct call of a category lookup returned
Returned(value, scored) ==
  [Response("return", 0, <<>>, <<>>, <<>>, scored, <<>>, <<>>)
     EXCEPT !.value = value]

Redirect(flashes) == Response("redirect", 302, <<>>, <<>>, flashes, <<>>, <<>>, <<>>)

NoRequest == [handler |-> "none"]

NoResponse == Response("none", 0, <<>>, <<>>, <<>>, <<>>, <<>>, <<>>)

(***************************************************************************)
(* The lazily created globals: predict.predictor, made by get_predictor(), *)
(* and get_fertilizer_details._fertilizer_details, made by                 *)
(* get_fertilizer_details().  An instance is the number of the constructor *)
(* run that made it.                                                       *)
(***************************************************************************)
NumThreads == 2

Threads == 1..NumThreads

\* predictor = None and _fertilizer_details = None
NoInstance == 0

\* a thread that is in no call
IdleThread ==
  [call |-> "none", pc |-> "idle", args |-> <<>>, local |-> NoInstance,
   obtained |-> NoInstance, raised |-> FALSE, result |-> <<>>]

LazyInit ==
  /\ instances = [g \in {"predictor", "fertilizer_details"} |-> NoInstance]
  /\ constructed = [g \in {"predictor", "fertilizer_details"} |-> 0]
  /\ thread = [t \in Threads |-> IdleThread]

(***************************************************************************)
(* Password reset: auth_routes.reset_tokens and data/users.json.           *)
(***************************************************************************)
\* timedelta(hours=1), in the unit of now
Hour == 2

MaxTime == 4

MaxTokens == 2

\* the e-mail addresses of requests; db.users knows the first two
Emails == {"asha@example.com", "ravi@example.com", "nobody@example.com"}

\* find_user_by_email: whether db.users has a user of this address
find_user_by_email(email) == email \in {"asha@example.com", "ravi@example.com"}

\* users.json at start-up: the users it holds, with their passwords
UsersFiles ==
  { [e \in held |-> <<"hash", <<"O","l","d","P","a","s","s","1">>>>] :
      held \in { {}, {"asha@example.com"}, {"asha@example.com", "ravi@example.com"} } }

AuthInit(file) ==
  /\ reset_tokens = <<>>
  /\ users_file = file
  /\ now = 0
  /\ issued = 0
  /\ updates = [k \in 0..MaxTokens |-> 0]

(***************************************************************************)
(* The file store: a JSON file holds a dict from user id to the list of    *)
(* the user's records.                                                     *)
(***************************************************************************)
\* a file that holds the JSON text of db
Json(db) == [state |-> "json", db |-> db]

\* the two files before the calls: each user has one saved record
InitialFiles ==
  [f \in {"fertilizers.json", "growing_activities.json"} |->
     Json([u \in {"u1", "u2"} |->
             <<[id |-> IF u = "u1" THEN 11 ELSE 12, user_id |-> u, data |-> "saved"]>>])]

\* a thread that is in no call on the file store
IdleCaller == [pc |-> "idle", call |-> <<>>, local |-> <<>>, result |-> "none"]

StoreInit ==
  /\ files = InitialFiles
  /\ caller = [t \in Threads |-> IdleCaller]

\* the subsystems outside the scoring request at start-up
SideInit ==
  /\ LazyInit
  /\ AuthInit([e \in {} |-> <<>>])
  /\ StoreInit

\* The deployments: what the two predictors find at start-up.  The crop and
\* the fertilizer subsystems share no state, so each one's environment is
\* varied with the other's held fixed.
Deployments ==
  { <<env, "absent", "ok">> : env \in CropEnvs }
  \cup
  { <<CropEnv(TRUE, "absent", "absent", "absent"), "ok", data>> :
      data \in {"ok", "absent"} }

Init ==
  /\ \E env \in Deployments :
       /\ crop_predictor = load_model(env[1])
       /\ ml_predictor = LoadFertilizerPredictor(env[2])
       /\ dataset = env[3]
  /\ fertilizer_details = "None"
  /\ unseen_before = FALSE
  /\ raised_before = FALSE
  /\ request = NoRequest
  /\ response = NoResponse
  /\ SideInit

\* the server takes a request when it is serving none
Idle == request = NoRequest

\* the requests of a set the server can take now
Arriving(requests) == IF Idle THEN requests ELSE {}

\* the response is sent and the server waits for the next request
finish_request ==
  /\ ~Idle
  /\ request' = NoRequest
  /\ response' = NoResponse
  /\ UNCHANGED <<side_vars, crop_predictor, ml_predictor, fertilizer_details, dataset,
                 unseen_before, raised_before>>

(***************************************************************************)
(* crop_suggestion (POST) and api_predict_crop.                            *)
(***************************************************************************)
\* whether the call reaches model.predict_proba
UsesClassifier(cp, in) ==
  cp.use_sklearn /\ cp.model # "None" /\ cp.scaler # "None" /\ ~ScoringRaises(cp, in)

NoProbs == [i \in 1..NumCropLabels |-> 0]

\* the probability vectors the classifier may return in this call
CropProbsFor(cp, in) == IF UsesClassifier(cp, in) THEN CropProbVectors ELSE {NoProbs}

\* lines 86-132: the page rendered for crop_recommendations
CropSuggestionPage(crop_recommendations, flash, scored, prediction_result) ==
  Response("render", 200, crop_recommendations,
           CategorizeCrops(crop_recommendations), <<flash>>, scored,
           <<prediction_result>>, <<>>)

\* lines 67-84: the predictor's list if it has one, else the rule-based one
CropSuggestionRecommend(prediction_result, in) ==
  IF prediction_result.top_recommendations # <<>>
  THEN CropSuggestionPage(
         prediction_result.top_recommendations,
         Flash("Success! Generated crop recommendations based on your soil analysis!", "success"),
         <<"predict_crop_recommendation">>, prediction_result)
  ELSE CropSuggestionPage(
         generate_fallback_recommendations(in),
         Flash("Using basic recommendations. Install ML packages for AI predictions.", "warning"),
         <<"predict_crop_recommendation", "generate_fallback_recommendations">>,
         prediction_result)

\* lines 51-61: the three range checks of the form handler
Validated(in) ==
  /\ Between(0, in.nitrogen, 200)
  /\ Between(0, in.humidity, 100)
  /\ Between(30, in.ph10, 100)

\* the response to a form whose fields all parse as floats
CropSuggestionResponse(cp, in, probs) ==
  IF ~Between(0, in.nitrogen, 200)
    THEN Redirect(<<Flash("Nitrogen level should be between 0-200 mg/kg", "error")>>)
  ELSE IF ~Between(0, in.humidity, 100)
    THEN Redirect(<<Flash("Humidity should be between 0-100%", "error")>>)
  ELSE IF ~Between(30, in.ph10, 100)
    THEN Redirect(<<Flash("pH should be between 3-10", "error")>>)
  ELSE CropSuggestionRecommend(predict_crop_recommendation(cp, in, probs), in)

crop_suggestion(in, probs) ==
  /\ Idle
  /\ request' = [handler |-> "crop_suggestion", numeric |-> TRUE, form |-> in]
  /\ response' = CropSuggestionResponse(crop_predictor, in, probs)
  /\ crop_predictor' =
       IF Validated(in) THEN CropPredictorAfterPredict(crop_predictor, in)
       ELSE crop_predictor
  /\ raised_before' =
       IF Validated(in) /\ ScoringRaises(crop_predictor, in) THEN TRUE
       ELSE raised_before
  /\ UNCHANGED <<side_vars, ml_predictor, fertilizer_details, dataset, unseen_before>>

\* a form with a field float() rejects: the ValueError branch
crop_suggestion_invalid(in) ==
  /\ Idle
  /\ request' = [handler |-> "crop_suggestion", numeric |-> FALSE, form |-> in]
  /\ response' = Redirect(<<Flash("Please enter valid numerical values for all fields.", "error")>>)
  /\ UNCHANGED <<side_vars, crop_predictor, ml_predictor, fertilizer_details, dataset,
                 unseen_before, raised_before>>

\* api_predict_crop; complete: the JSON body has the seven keys
api_predict_crop(in, complete, probs) ==
  /\ Idle
  /\ request' = [handler |-> "api_predict_crop", complete |-> complete, form |-> in]
  /\ response' =
       IF complete
       THEN Response("json", 200, <<>>, <<>>, <<>>, <<"predict_crop_recommendation">>,
                     <<predict_crop_recommendation(crop_predictor, in, probs)>>, <<>>)
       ELSE Response("json", 500, <<>>, <<>>, <<>>, <<>>, <<>>, <<>>)
  /\ crop_predictor' =
       IF complete THEN CropPredictorAfterPredict(crop_predictor, in)
       ELSE crop_predictor
  /\ raised_before' =
       IF complete /\ ScoringRaises(crop_predictor, in) THEN TRUE
       ELSE raised_before
  /\ UNCHANGED <<side_vars, ml_predictor, fertilizer_details, dataset, unseen_before>>

\* a direct call of the rule-based crop scorer
call_generate_fallback_recommendations(in) ==
  /\ Idle
  /\ request' = [handler |-> "generate_fallback_recommendations", form |-> in]
  /\ response' = Response("return", 0, generate_fallback_recommendations(in),
                          <<>>, <<>>, <<"generate_fallback_recommendations">>,
                          <<>>, <<>>)
  /\ UNCHANGED <<side_vars, crop_predictor, ml_predictor, fertilizer_details, dataset,
                 unseen_before, raised_before>>

(***************************************************************************)
(* fertilizer_recommend (POST).                                            *)
(***************************************************************************)
\* line 208: the form's moisture as the handler reads it
\*   float(form.get('moisture', form.get('humidity', 0))) / 100.0
\*     if 'humidity' in form else float(form.get('moisture', 0))
\* The form values are in hundredths, so a value divided by 100 is that
\* many ten-thousandths.
FormMoisture(form) ==
  IF "humidity" \in form.fields
  THEN Q(IF "moisture" \in form.fields THEN form.moisture ELSE form.humidity, 10000)
  ELSE Q(IF "moisture" \in form.fields THEN form.moisture ELSE 0, 100)

\* moisture * 100
Times100(x) == Num(100 * x.n, x.den, x.d)

FormArgs(form) ==
  FertArgs(form.temperature, FormMoisture(form), form.nitrogen,
           form.phosphorous, form.potassium, form.soil, form.crop)

\* 'High' if rec['confidence'] >= 60 else 'Medium' if rec['confidence'] >= 30 else 'Low'
MlPriority(confidence) ==
  IF NumLe(Q(60, 1), confidence) THEN "High"
  ELSE IF NumLe(Q(30, 1), confidence) THEN "Medium"
  ELSE "Low"

\* rec['confidence'] / 100.0
Over100(x) == Num(x.n, 100 * x.den, x.d)

\* the conversion of the predictor's entries to the template's format
Standardized(raw_recommendations) ==
  [i \in 1..Len(raw_recommendations) |->
     LET rec == raw_recommendations[i]
     IN [name |-> rec.fertilizer,
         dosage |-> rec.dosage,
         usage |-> rec.use,
         note |-> rec.notes,
         confidence_percentage |-> rec.confidence,
         priority |-> MlPriority(rec.confidence),
         probability |-> Over100(rec.confidence)]]

\* whether the request reaches model.predict_proba
FertUsesClassifier(pred, details, data, form) ==
  pred # NoPredictor /\ PredictError(pred, details, data, FormArgs(form)) = ""

NoFertProbs == [i \in 1..NumFertLabels |-> 0]

FertProbsFor(pred, details, data, form) ==
  IF FertUsesClassifier(pred, details, data, form) THEN FertProbVectors
  ELSE {NoFertProbs}

TieOrdersFor(pred, details, data, form) ==
  IF FertUsesClassifier(pred, details, data, form) THEN BOOLEAN ELSE {TRUE}

\* the half-way candidates of the rule-based call the request leads to
FormHalfWay(pred, details, data, form) ==
  IF FertUsesClassifier(pred, details, data, form) THEN {}
  ELSE HalfWay(form.crop, form.nitrogen, form.phosphorous, form.potassium,
               form.temperature, Times100(FormMoisture(form)))

\* lines 263-308: the page rendered for recommendations
FertilizerPage(recommendations, flashes, scored, ml_result) ==
  Response("render", 200, recommendations,
           CategorizeFertilizers(recommendations), flashes, scored, <<>>,
           ml_result)

\* a variant of FertilizerRecommendations: no rule-based list
FertilizerRecommendationsAsPredicted(ml_recommendations, form, ups) ==
  ml_recommendations

\* lines 256-260: the rule-based list when the statistical one is empty
FertilizerRecommendations(ml_recommendations, form, ups) ==
  IF ml_recommendations # <<>> THEN ml_recommendations
  ELSE generate_fertilizer_recommendations(form.crop, form.nitrogen,
         form.phosphorous, form.potassium, form.temperature,
         Times100(FormMoisture(form)), ups)

\* lines 256-308 for the list and flags the prediction branch left
FertilizerRespond(ml_recommendations, is_ml_prediction, error_flashes, ml_result, form, ups) ==
  FertilizerPage(
    FertilizerRecommendations(ml_recommendations, form, ups),
    error_flashes \o
      <<Flash(IF is_ml_prediction
              THEN "AI-powered fertilizer recommendations generated!"
              ELSE "Fertilizer recommendations generated successfully!",
              "success")>>,
    (IF ml_result # <<>> THEN <<"predict">> ELSE <<>>) \o
      (IF ml_recommendations # <<>> THEN <<>>
       ELSE <<"generate_fertilizer_recommendations">>),
    ml_result)

\* lines 222-253: what the handler does with the predictor's result
FertilizerAfterPredict(result, form, ups) ==
  FertilizerRespond(
    IF result.success THEN Standardized(result.top_recommendations) ELSE <<>>,
    result.success,
    IF result.success THEN <<>> ELSE <<Flash("ML Model Error", "error")>>,
    <<result>>, form, ups)

\* a variant of FertilizerRecommendResponse: the missing predictor is
\* reported to the user
FertilizerRecommendResponseLoadError(pred, details, data, form, probs, stable, ups) ==
  IF pred # NoPredictor
  THEN FertilizerAfterPredict(
         predict(pred, details, data, FormArgs(form), probs, stable), form, ups)
  ELSE FertilizerRespond(<<>>, FALSE, <<Flash("ML Model Error", "error")>>,
                         <<>>, form, ups)

\* the response to a form whose fields all parse as floats
FertilizerRecommendResponse(pred, details, data, form, probs, stable, ups) ==
  IF pred # NoPredictor
  THEN FertilizerAfterPredict(
         predict(pred, details, data, FormArgs(form), probs, stable), form, ups)
  ELSE FertilizerRespond(<<>>, FALSE, <<>>, <<>>, form, ups)

fertilizer_recommend(form, probs, stable, ups) ==
  LET a == FormArgs(form)
      called == ml_predictor # NoPredictor
  IN /\ Idle
     /\ request' = [handler |-> "fertilizer_recommend", numeric |-> TRUE,
                     form |-> form]
     /\ response' = FertilizerRecommendResponse(ml_predictor, fertilizer_details,
                                                dataset, form, probs, stable, ups)
     /\ fertilizer_details' =
          IF called
          THEN DetailsAfterPredict(ml_predictor, fertilizer_details, dataset, a)
          ELSE fertilizer_details
     /\ unseen_before' =
          IF /\ called
             /\ ~(a.soil \in ml_predictor.label_encoders.Soil
                  /\ a.crop \in ml_predictor.label_encoders.Crop)
          THEN TRUE ELSE unseen_before
     /\ ml_predictor' =
          IF called THEN PredictorAfterPredict(ml_predictor, a) ELSE ml_predictor
     /\ UNCHANGED <<side_vars, crop_predictor, dataset, raised_before>>

\* a form with a field float() rejects: the ValueError branch
fertilizer_recommend_invalid(form) ==
  /\ Idle
  /\ request' = [handler |-> "fertilizer_recommend", numeric |-> FALSE, form |-> form]
  /\ response' = Redirect(<<Flash("Please provide valid numeric inputs", "error")>>)
  /\ UNCHANGED <<side_vars, crop_predictor, ml_predictor, fertilizer_details, dataset,
                 unseen_before, raised_before>>

\* a direct call of the rule-based fertilizer scorer
call_generate_fertilizer_recommendations(a, ups) ==
  /\ Idle
  /\ request' = [handler |-> "generate_fertilizer_recommendations", form |-> a]
  /\ response' = Response("return", 0,
                          generate_fertilizer_recommendations(a.crop_type, a.n,
                            a.p, a.k, a.temperature, a.soil_moisture, ups),
                          <<>>, <<>>, <<"generate_fertilizer_recommendations">>,
                          <<>>, <<>>)
  /\ UNCHANGED <<side_vars, crop_predictor, ml_predictor, fertilizer_details, dataset,
                 unseen_before, raised_before>>

\* a direct call of get_crop_category
call_get_crop_category(crop_name) ==
  /\ Idle
  /\ request' = [handler |-> "get_crop_category", form |-> crop_name]
  /\ response' = Returned(get_crop_category(crop_name), <<"get_crop_category">>)
  /\ UNCHANGED <<side_vars, crop_predictor, ml_predictor, fertilizer_details, dataset,
                 unseen_before, raised_before>>

\* a direct call of get_fertilizer_category
call_get_fertilizer_category(fetilizer_name) ==
  /\ Idle
  /\ request' = [handler |-> "get_fertilizer_category", form |-> fetilizer_name]
  /\ response' = Returned(get_fertilizer_category(fetilizer_name),
                          <<"get_fertilizer_category">>)
  /\ UNCHANGED <<side_vars, crop_predictor, ml_predictor, fertilizer_details, dataset,
                 unseen_before, raised_before>>

(***************************************************************************)
(* The specification.                                                      *)
(***************************************************************************)
Next ==
  \/ finish_request
  \/ \E crop_name \in Arriving(CropNames) : call_get_crop_category(crop_name)
  \/ \E fetilizer_name \in Arriving(FertilizerNames) :
       call_get_fertilizer_category(fetilizer_name)
  \/ \E in \in Arriving(CropRequests) :
       \E probs \in CropProbsFor(crop_predictor, in) :
         crop_suggestion(in, probs)
  \/ \E in \in Arriving(CropRequests) : crop_suggestion_invalid(in)
  \/ \E in \in Arriving(CropRequests) : \E complete \in BOOLEAN :
       \E probs \in CropProbsFor(crop_predictor, in) :
         api_predict_crop(in, complete, probs)
  \/ \E in \in Arriving(CropScorerInputs) :
       call_generate_fallback_recommendations(in)
  \/ \E form \in Arriving(FertForms) :
       \E probs \in FertProbsFor(ml_predictor, fertilizer_details, dataset, form) :
         \E stable \in TieOrdersFor(ml_predictor, fertilizer_details, dataset, form) :
           \E ups \in SUBSET FormHalfWay(ml_predictor, fertilizer_details, dataset, form) :
             fertilizer_recommend(form, probs, stable, ups)
  \/ \E form \in Arriving(FertForms) : fertilizer_recommend_invalid(form)
  \/ \E a \in Arriving(FertScorerInputs) :
       \E ups \in SUBSET HalfWay(a.crop_type, a.n, a.p, a.k, a.temperature,
                                 a.soil_moisture) :
         call_generate_fertilizer_recommendations(a, ups)

Spec == Init /\ [][Next]_vars

(***************************************************************************)
(* Concurrent calls.  The development server answers each request on a     *)
(* thread of its own, so calls of the predictors and of the two lazy       *)
(* getters interleave between their statements.  The artifacts of both     *)
(* predictors are present; the data set of the knowledge base may be       *)
(* missing.                                                                *)
(***************************************************************************)
\* the calls the threads make: the two getters, FertilizerPredictor.predict
\* on seen and on unseen labels, and predict_crop_recommendation on a
\* complete and on an incomplete input
ThreadCalls ==
  { [call |-> "get_predictor", pc |-> "check", args |-> <<>>],
    [call |-> "get_fertilizer_details", pc |-> "check", args |-> <<>>],
    [call |-> "predict", pc |-> "score",
     args |-> [a |-> FertArgs(25, Q(30, 100), 8, 58, 60, "Loamy Soil", <<"r","i","c","e">>),
               probs |-> [k \in 1..NumFertLabels |-> IF k = 1 THEN ProbUnits ELSE 0],
               stable |-> TRUE]],
    [call |-> "predict", pc |-> "score",
     args |-> [a |-> FertArgs(25, Q(30, 100), 8, 58, 60, "Peaty Soil", <<"r","i","c","e">>),
               probs |-> NoFertProbs, stable |-> TRUE]],
    [call |-> "predict_crop_recommendation", pc |-> "score",
     args |-> [in |-> CropInput(100, 45, 40, 25, 85, 62, 200),
               probs |-> [k \in 1..NumCropLabels |-> IF k = 1 THEN ProbUnits ELSE 0]]],
    [call |-> "predict_crop_recommendation", pc |-> "score",
     args |-> [in |-> CropInput(100, NaN, 40, 25, 85, 62, 200), probs |-> NoProbs]] }

ThreadsInit ==
  /\ crop_predictor = load_model(CropEnv(TRUE, "ok", "ok", "absent"))
  /\ ml_predictor = LoadFertilizerPredictor("ok")
  /\ dataset \in {"ok", "absent"}
  /\ fertilizer_details = "None"
  /\ unseen_before = FALSE
  /\ raised_before = FALSE
  /\ request = NoRequest
  /\ response = NoResponse
  /\ SideInit

\* the global a call creates lazily
GlobalOf(call) == IF call = "get_predictor" THEN "predictor" ELSE "fertilizer_details"

\* thread t enters one of the calls
begin_call(t, c) ==
  /\ thread[t].pc = "idle"
  /\ thread' = [thread EXCEPT ![t] =
                  [IdleThread EXCEPT !.call = c.call, !.pc = c.pc, !.args = c.args]]
  /\ UNCHANGED <<auth_vars, store_vars, main_vars, instances, constructed>>

\* predict_crop_recommendation, lines 43-99: it reads the instance and the
\* arguments only
score_crop(t) ==
  /\ thread[t].call = "predict_crop_recommendation"
  /\ thread[t].pc = "score"
  /\ thread' = [thread EXCEPT ![t].pc = "done",
                  ![t].result = <<predict_crop_recommendation(
                                    crop_predictor, thread[t].args.in,
                                    thread[t].args.probs)>>]
  /\ crop_predictor' = CropPredictorAfterPredict(crop_predictor, thread[t].args.in)
  /\ raised_before' =
       IF ScoringRaises(crop_predictor, thread[t].args.in) THEN TRUE
       ELSE raised_before
  /\ UNCHANGED <<auth_vars, store_vars, ml_predictor, fertilizer_details, dataset, unseen_before,
                 request, response, instances, constructed>>

\* predict, lines 33-69: encode, scale, predict and rank; an unseen label
\* raises and the except branch returns
score_fertilizer(t) ==
  LET a == thread[t].args.a
      seen == /\ a.soil \in ml_predictor.label_encoders.Soil
              /\ a.crop \in ml_predictor.label_encoders.Crop
  IN /\ thread[t].call = "predict"
     /\ thread[t].pc = "score"
     /\ thread' = [thread EXCEPT ![t] =
          IF seen THEN [@ EXCEPT !.pc = "check"]
          ELSE [@ EXCEPT !.pc = "done",
                  !.result = <<FailedPrediction(
                                 PredictError(ml_predictor, fertilizer_details,
                                              dataset, a))>>]]
     /\ ml_predictor' = PredictorAfterPredict(ml_predictor, a)
     /\ unseen_before' = IF seen THEN unseen_before ELSE TRUE
     /\ UNCHANGED <<auth_vars, store_vars, crop_predictor, fertilizer_details, dataset, raised_before,
                    request, response, instances, constructed>>

\* `if predictor is None:' and `if _fertilizer_details is None:'
lazy_check(t) ==
  /\ thread[t].pc = "check"
  /\ thread' = [thread EXCEPT ![t].pc =
                  IF instances[GlobalOf(thread[t].call)] = NoInstance
                  THEN "construct" ELSE "return"]
  /\ UNCHANGED <<auth_vars, store_vars, main_vars, instances, constructed>>

\* the right-hand sides FertilizerPredictor() and FertilizerDetails(): the
\* constructor reads its files; pd.read_csv raises when the data set is
\* missing: get_fertilizer_details raises, and predict returns from its
\* except branch
lazy_construct(t) ==
  LET g == GlobalOf(thread[t].call)
  IN /\ thread[t].pc = "construct"
     /\ IF g = "fertilizer_details" /\ dataset # "ok"
        THEN /\ thread' = [thread EXCEPT ![t].pc = "done", ![t].raised = TRUE,
                  ![t].result =
                     IF thread[t].call = "predict"
                     THEN <<FailedPrediction(
                              "No such file or directory: fertilizer_recommendation_dataset.csv")>>
                     ELSE <<>>]
             /\ UNCHANGED constructed
        ELSE /\ constructed' = [constructed EXCEPT ![g] = @ + 1]
             /\ thread' = [thread EXCEPT ![t].pc = "assign",
                                         ![t].local = constructed[g] + 1]
     /\ UNCHANGED <<auth_vars, store_vars, main_vars, instances>>

\* the assignments `predictor = ...' and `_fertilizer_details = ...'
lazy_assign(t) ==
  LET g == GlobalOf(thread[t].call)
  IN /\ thread[t].pc = "assign"
     /\ instances' = [instances EXCEPT ![g] = thread[t].local]
     /\ fertilizer_details' =
          IF g = "fertilizer_details" THEN "FertilizerDetails"
          ELSE fertilizer_details
     /\ thread' = [thread EXCEPT ![t].pc = "return"]
     /\ UNCHANGED <<auth_vars, store_vars, crop_predictor, ml_predictor, dataset, unseen_before,
                    raised_before, request, response, constructed>>

\* `return predictor' and `return _fertilizer_details': the global is read
\* again; predict goes on to lines 75-98 with the instance it got
lazy_return(t) ==
  LET c == thread[t].args
  IN /\ thread[t].pc = "return"
     /\ thread' = [thread EXCEPT ![t].pc = "done",
          ![t].obtained = instances[GlobalOf(thread[t].call)],
          ![t].result =
             IF thread[t].call = "predict"
             THEN <<predict(ml_predictor, fertilizer_details, dataset, c.a,
                            c.probs, c.stable)>>
             ELSE <<>>]
     /\ UNCHANGED <<auth_vars, store_vars, main_vars, instances, constructed>>

NextThreads ==
  \/ \E t \in Threads : \E c \in ThreadCalls : begin_call(t, c)
  \/ \E t \in Threads : score_crop(t)
  \/ \E t \in Threads : score_fertilizer(t)
  \/ \E t \in Threads : lazy_check(t)
  \/ \E t \in Threads : lazy_construct(t)
  \/ \E t \in Threads : lazy_assign(t)
  \/ \E t \in Threads : lazy_return(t)

SpecThreads == ThreadsInit /\ [][NextThreads]_vars

(***************************************************************************)
(* forgot_password and reset_password.  The server handles one of these    *)
(* requests at a time; secrets.token_urlsafe(32) gives a token that was    *)
(* never given before, the number of the call that made it.                *)
(***************************************************************************)
\* variants of DictDel: the entry stays
DictDelNothing(d, key) == d

\* del reset_tokens[token]
DictDel(d, key) == [k \in DOMAIN d \ {key} |-> d[k]]

\* validate_password_strength: the message of the first rule the password
\* breaks
validate_password_strength(password) ==
  IF Len(password) < 8
    THEN "Password must be at least 8 characters long"
  ELSE IF ~\E i \in 1..Len(password) : \E j \in 1..26 : UpperChars[j] = password[i]
    THEN "Password must contain at least one uppercase letter"
  ELSE IF ~\E i \in 1..Len(password) : \E j \in 1..26 : LowerChars[j] = password[i]
    THEN "Password must contain at least one lowercase letter"
  ELSE IF ~\E i \in 1..Len(password) :
            password[i] \in {"0", "1", "2", "3", "4", "5", "6", "7", "8", "9"}
    THEN "Password must contain at least one number"
  ELSE "Password is strong"

\* update_user_password: the stored password of the user of this address
\* is replaced; False when users.json holds no such user
update_user_password(file, email, new_password) ==
  IF email \in DOMAIN file
  THEN [ok |-> TRUE, file |-> [file EXCEPT ![email] = new_password]]
  ELSE [ok |-> FALSE, file |-> file]

\* what reset_password answers and leaves behind
ResetResult(kind, category, message, tokens, file, updated) ==
  [kind |-> kind, flashes |-> <<Flash(message, category)>>, tokens |-> tokens,
   file |-> file, updated |-> updated]

\* reset_password, lines 243-285; the stored password is
\* hash_password(password)
reset_password_result(tokens, file, time, token, method, form) ==
  IF token \notin DOMAIN tokens
    THEN ResetResult("redirect", "error",
           "Invalid or expired reset link. Please request a new one.",
           tokens, file, FALSE)
  ELSE IF time > tokens[token].expiry
    THEN ResetResult("redirect", "error",
           "Reset link has expired. Please request a new one.",
           DictDel(tokens, token), file, FALSE)
  ELSE IF method # "POST"
    THEN [kind |-> "render", flashes |-> <<>>, tokens |-> tokens, file |-> file,
          updated |-> FALSE]
  ELSE IF form.password # form.confirm_password
    THEN ResetResult("render", "error", "Passwords do not match!",
                     tokens, file, FALSE)
  ELSE IF validate_password_strength(form.password) # "Password is strong"
    THEN ResetResult("render", "warning",
                     validate_password_strength(form.password), tokens, file, FALSE)
  ELSE IF update_user_password(file, tokens[token].email, <<"hash", form.password>>).ok
    THEN ResetResult("redirect", "success",
           "Password has been reset successfully! Please login with your new password.",
           DictDel(tokens, token),
           update_user_password(file, tokens[token].email,
                                <<"hash", form.password>>).file,
           TRUE)
  ELSE ResetResult("render", "error", "Failed to update password. Please try again.",
                   tokens, file, FALSE)

\* the forms of POST /reset-password/<token>
ResetForms ==
  { [password |-> p[1], confirm_password |-> p[2]] :
      p \in { << <<"H","a","r","v","e","s","t","2","4">>, <<"H","a","r","v","e","s","t","2","4">> >>,
              << <<"M","o","n","s","o","o","n","7","7">>, <<"M","o","n","s","o","o","n","7","7">> >>,
              << <<"H","a","r","v","e","s","t","2","4">>, <<"h","a","r","v","e","s","t","2","4">> >>,
              << <<"S","h","o","r","t","1","a">>, <<"S","h","o","r","t","1","a">> >>,
              << <<"h","a","r","v","e","s","t","2","4">>, <<"h","a","r","v","e","s","t","2","4">> >>,
              << <<"H","A","R","V","E","S","T","2","4">>, <<"H","A","R","V","E","S","T","2","4">> >>,
              << <<"H","a","r","v","e","s","t","e","d">>, <<"H","a","r","v","e","s","t","e","d">> >> } }

\* GET and POST /reset-password/<token>
reset_password(token, method, form) ==
  /\ Idle
  /\ \E r \in {reset_password_result(reset_tokens, users_file, now, token,
                                     method, form)} :
       /\ request' = [handler |-> "reset_password", token |-> token,
                       method |-> method, form |-> form]
       /\ response' = IF r.kind = "redirect" THEN Redirect(r.flashes)
                      ELSE Response("render", 200, <<>>, <<>>, r.flashes,
                                    <<>>, <<>>, <<>>)
       /\ reset_tokens' = r.tokens
       /\ users_file' = r.file
       /\ updates' = IF r.updated THEN [updates EXCEPT ![token] = @ + 1]
                     ELSE updates
  /\ UNCHANGED <<lazy_vars, store_vars, now, issued, crop_predictor, ml_predictor,
                 fertilizer_details, dataset, unseen_before, raised_before>>

\* GET and POST /forgot-password; sent: whether send_reset_email succeeded
forgot_password(method, email, sent) ==
  /\ Idle
  /\ (method = "POST" /\ find_user_by_email(email)) => issued < MaxTokens
  /\ request' = [handler |-> "forgot_password", method |-> method,
                  form |-> [email |-> email]]
  /\ IF method = "POST" /\ find_user_by_email(email)
     THEN /\ issued' = issued + 1
          /\ reset_tokens' =
               [k \in DOMAIN reset_tokens \cup {issued + 1} |->
                  IF k = issued + 1 THEN [email |-> email, expiry |-> now + Hour]
                  ELSE reset_tokens[k]]
          /\ response' = Redirect(<<
               IF sent
               THEN Flash("Password reset link has been sent to your email!", "success")
               ELSE Flash("Email service not configured. Please contact support.", "warning")>>)
     ELSE /\ UNCHANGED <<issued, reset_tokens>>
          /\ response' =
               IF method = "POST"
               THEN Redirect(<<Flash("If this email is registered, you will receive a password reset link.", "info")>>)
               ELSE Response("render", 200, <<>>, <<>>, <<>>, <<>>, <<>>, <<>>)
  /\ UNCHANGED <<lazy_vars, store_vars, users_file, now, updates, crop_predictor,
                 ml_predictor, fertilizer_details, dataset, unseen_before,
                 raised_before>>

\* half an hour passes
tick ==
  /\ now < MaxTime
  /\ now' = now + 1
  /\ UNCHANGED <<main_vars, lazy_vars, store_vars, reset_tokens, users_file, issued,
                 updates>>

InitAuth ==
  /\ crop_predictor = load_model(CropEnv(TRUE, "absent", "absent", "absent"))
  /\ ml_predictor = LoadFertilizerPredictor("ok")
  /\ dataset = "ok"
  /\ fertilizer_details = "None"
  /\ unseen_before = FALSE
  /\ raised_before = FALSE
  /\ request = NoRequest
  /\ response = NoResponse
  /\ LazyInit
  /\ StoreInit
  /\ \E file \in UsersFiles : AuthInit(file)

NextAuth ==
  \/ finish_request
  \/ tick
  \/ \E method \in Arriving({"GET", "POST"}) : \E email \in Emails :
       \E sent \in BOOLEAN : forgot_password(method, email, sent)
  \/ \E token \in Arriving(0..MaxTokens) : \E method \in {"GET", "POST"} :
       \E form \in ResetForms : reset_password(token, method, form)

SpecAuth == InitAuth /\ [][NextAuth]_vars

(***************************************************************************)
(* Calls that modify the file store.  Each one loads the whole file,       *)
(* changes the dict and writes the whole file back; no call takes a lock,  *)
(* and the calls of two request threads interleave between these steps.    *)
(***************************************************************************)
\* save_fertilizer_recommendation, lines 279-289: the record is appended to
\* the user's list
save_fertilizer_recommendation(db, c) ==
  [write |-> TRUE,
   db |-> [db EXCEPT ![c.user_id] =
             Append(@, [id |-> c.id, user_id |-> c.user_id, data |-> c.data])]]

\* delete_fertilizer_recommendation, lines 336-355: the user's records of
\* this id are dropped; nothing is written when there is none
delete_fertilizer_recommendation(db, c) ==
  [write |-> \E i \in DOMAIN db[c.user_id] : db[c.user_id][i].id = c.id,
   db |-> [db EXCEPT ![c.user_id] = SelectSeq(@, LAMBDA r : r.id # c.id)]]

\* save_growing_activity, lines 385-395
save_growing_activity(db, c) ==
  [write |-> TRUE,
   db |-> [db EXCEPT ![c.user_id] =
             Append(@, [id |-> c.id, user_id |-> c.user_id, data |-> c.data])]]

\* update_growing_activity, lines 449-487: the fields of the first record
\* of this id are replaced; nothing is written when there is none
update_growing_activity(db, c) ==
  [write |-> \E i \in DOMAIN db[c.user_id] : db[c.user_id][i].id = c.id,
   db |-> [db EXCEPT ![c.user_id] =
             [i \in DOMAIN @ |->
                IF @[i].id = c.id /\ \A j \in 1..(i - 1) : @[j].id # c.id
                THEN [@[i] EXCEPT !.data = c.data] ELSE @[i]]]]

\* delete_growing_activity, lines 505-524
delete_growing_activity(db, c) ==
  [write |-> \E i \in DOMAIN db[c.user_id] : db[c.user_id][i].id = c.id,
   db |-> [db EXCEPT ![c.user_id] = SelectSeq(@, LAMBDA r : r.id # c.id)]]

\* what call c makes of the dict it loaded
Modified(db, c) ==
  CASE c.op = "save_fertilizer_recommendation" -> save_fertilizer_recommendation(db, c)
    [] c.op = "delete_fertilizer_recommendation" -> delete_fertilizer_recommendation(db, c)
    [] c.op = "save_growing_activity" -> save_growing_activity(db, c)
    [] c.op = "update_growing_activity" -> update_growing_activity(db, c)
    [] c.op = "delete_growing_activity" -> delete_growing_activity(db, c)

\* the file a call works on
FileOf(c) ==
  IF c.op \in {"save_fertilizer_recommendation", "delete_fertilizer_recommendation"}
  THEN "fertilizers.json" ELSE "growing_activities.json"

\* the calls thread t can make; uuid4 gives a new record an id no other
\* record has, here the number of the thread
StoreCalls(t) ==
  { [op |-> op, user_id |-> u, id |-> t, data |-> "new"] :
      op \in {"save_fertilizer_recommendation", "save_growing_activity"},
      u \in {"u1", "u2"} }
  \cup
  { [op |-> op, user_id |-> u, id |-> id, data |-> "updated"] :
      op \in {"delete_fertilizer_recommendation", "update_growing_activity",
              "delete_growing_activity"},
      u \in {"u1", "u2"}, id \in {11, 12} }

\* thread t enters call c
store_begin(t, c) ==
  /\ caller[t].pc = "idle"
  /\ caller' = [caller EXCEPT ![t] = [IdleCaller EXCEPT !.pc = "load", !.call = c]]
  /\ UNCHANGED <<main_vars, lazy_vars, auth_vars, files>>

\* `with open(FILE, 'r') as f: db = json.load(f)' and the change of the
\* dict; json.load raises on a file that holds no JSON text, and the except
\* branch returns
store_load(t) ==
  /\ caller[t].pc = "load"
  /\ \E c \in {caller[t].call} : \E file \in {files[FileOf(c)]} :
       caller' = [caller EXCEPT ![t] =
         IF file.state # "json"
           THEN [@ EXCEPT !.pc = "done", !.result = "error"]
         ELSE IF ~Modified(file.db, c).write
           THEN [@ EXCEPT !.pc = "done", !.result = "not found"]
         ELSE [@ EXCEPT !.pc = "open", !.local = Modified(file.db, c).db]]
  /\ UNCHANGED <<main_vars, lazy_vars, auth_vars, files>>

\* open(FILE, 'w'): the file is truncated
store_open(t) ==
  /\ caller[t].pc = "open"
  /\ files' = [files EXCEPT ![FileOf(caller[t].call)] =
                 [state |-> "empty", db |-> <<>>]]
  /\ caller' = [caller EXCEPT ![t].pc = "dump"]
  /\ UNCHANGED <<main_vars, lazy_vars, auth_vars>>

\* the number of records of a dict, for the length of its JSON text
Records(db) ==
  IF db = <<>> THEN 0 ELSE Len(db["u1"]) + Len(db["u2"])

\* json.dump and the close of the file: the text is written from offset 0.
\* When another thread has written the file since this one truncated it,
\* a shorter text leaves the tail of the other text behind it
store_dump(t, garbled) ==
  /\ caller[t].pc = "dump"
  /\ \E f \in {FileOf(caller[t].call)} : \E mine \in {caller[t].local} :
       /\ garbled =>
            /\ files[f].state # "empty"
            /\ files[f].db # mine
            /\ Records(mine) <= Records(files[f].db)
       /\ ~garbled =>
            \/ files[f].state = "empty"
            \/ files[f].db = mine /\ files[f].state = "json"
            \/ Records(mine) >= Records(files[f].db)
       /\ files' = [files EXCEPT ![f] =
                      IF garbled THEN [state |-> "garbled", db |-> files[f].db]
                      ELSE Json(mine)]
  /\ caller' = [caller EXCEPT ![t].pc = "done", ![t].result = "written"]
  /\ UNCHANGED <<main_vars, lazy_vars, auth_vars>>

InitStore ==
  /\ crop_predictor = load_model(CropEnv(TRUE, "absent", "absent", "absent"))
  /\ ml_predictor = LoadFertilizerPredictor("ok")
  /\ dataset = "ok"
  /\ fertilizer_details = "None"
  /\ unseen_before = FALSE
  /\ raised_before = FALSE
  /\ request = NoRequest
  /\ response = NoResponse
  /\ SideInit

NextStore ==
  \/ \E t \in Threads : \E c \in StoreCalls(t) : store_begin(t, c)
  \/ \E t \in Threads : store_load(t)
  \/ \E t \in Threads : store_open(t)
  \/ \E t \in Threads : \E garbled \in BOOLEAN : store_dump(t, garbled)

SpecStore == InitStore /\ [][NextStore]_vars

(***************************************************************************)
(* What a response carries.                                                *)
(***************************************************************************)
Range(s) == {s[i] : i \in DOMAIN s}

\* the request was answered by the handler's page
Rendered == response.kind = "render"

\* the result CropPredictor.predict_crop_recommendation returned, if called
CropResults == Range(response.crop_result)

\* the result FertilizerPredictor.predict returned, if called
MlResults == Range(response.ml_result)

\* the lists of recommendations of the response: the predictor's
\* top_recommendations, and the list a page shows or a scorer returned
RankedLists ==
  {r.top_recommendations : r \in CropResults} \cup {response.recommendations}

\* the top_recommendations of a successful fertilizer prediction, as the
\* predictor returned them (entries with confidence, without probability)
MlRankedLists ==
  {r.top_recommendations : r \in {x \in MlResults : x.success}}

\* the response is the return value of the rule-based crop scorer
FromCropRules == request.handler = "generate_fallback_recommendations"

\* the list of the response was computed by the rule-based fertilizer scorer
FromFertRules == "generate_fertilizer_recommendations" \in Range(response.scored)

(***************************************************************************)
(* C1.                                                                     *)
(***************************************************************************)
RECURSIVE Flatten(_)
Flatten(categorized) ==
  IF categorized = <<>> THEN <<>>
  ELSE Head(categorized).items \o Flatten(Tail(categorized))

Occurrences(x, s) == Cardinality({i \in DOMAIN s : s[i] = x})

IsPermutation(s, t) ==
  /\ Len(s) = Len(t)
  /\ \A x \in Range(s) \cup Range(t) : Occurrences(x, s) = Occurrences(x, t)

\* C1: on every rendered page (crop or fertilizer) the category lists, taken
\* in the order of the categories, concatenate to a permutation of the list
\* of recommendations: every recommendation is in exactly one category list,
\* exactly once, and no category is listed twice.
CategorizationIsPermutation ==
  Rendered =>
    /\ IsPermutation(Flatten(response.categorized), response.recommendations)
    /\ \A i, j \in DOMAIN response.categorized :
         response.categorized[i].category = response.categorized[j].category
           => i = j

\* a page of six recommendations in three or more categories, in which the
\* reordering moved a later category before the first recommendation's
CategorizationReordered ==
  /\ Rendered
  /\ Len(response.recommendations) = 6
  /\ Len(response.categorized) >= 3
  /\ response.categorized[1].items[1] # response.recommendations[1]

(***************************************************************************)
(* C2.                                                                     *)
(***************************************************************************)
NonIncreasing(list) ==
  \A i \in 1..(Len(list) - 1) :
    /\ NumLe(list[i + 1].probability, list[i].probability)
    /\ NumLe(list[i + 1].confidence_percentage, list[i].confidence_percentage)

\* C2: on every path that produces top_recommendations, consecutive entries
\* of the list are in non-increasing order of probability and of
\* confidence_percentage (of confidence, for the fertilizer predictor's own
\* entries).
TopRecommendationsNonIncreasing ==
  /\ \A list \in RankedLists : NonIncreasing(list)
  /\ \A list \in MlRankedLists :
       \A i \in 1..(Len(list) - 1) :
         NumLe(list[i + 1].confidence, list[i].confidence)

(***************************************************************************)
(* C3.                                                                     *)
(***************************************************************************)
CropCatalogIndex(name) ==
  CHOOSE i \in 1..Len(CropCatalog) : CropCatalog[i].name = name

FertCandidateIndex(name) ==
  CHOOSE i \in 1..Len(FertCandidates) : FertCandidates[i].name = name

FertLabelIndex(label) ==
  CHOOSE i \in 1..Len(ml_predictor.target_encoder) :
    ml_predictor.target_encoder[i] = label

\* the crop scorer's entries of equal confidence_percentage are in catalog order
CropRuleTiesStable ==
  FromCropRules =>
    \A i, j \in DOMAIN response.recommendations :
      LET a == response.recommendations[i]
          b == response.recommendations[j]
      IN i < j /\ NumEq(a.confidence_percentage, b.confidence_percentage)
           => CropCatalogIndex(a.name) < CropCatalogIndex(b.name)

\* the fertilizer scorer's entries of equal confidence_percentage are in
\* catalog order
FertRuleTiesStable ==
  FromFertRules =>
    \A i, j \in DOMAIN response.recommendations :
      LET a == response.recommendations[i]
          b == response.recommendations[j]
      IN i < j /\ NumEq(a.confidence_percentage, b.confidence_percentage)
           => FertCandidateIndex(a.name) < FertCandidateIndex(b.name)

\* the fertilizer predictor's entries of equal confidence are in the order of
\* the class labels
FertStatTiesStable ==
  \A list \in MlRankedLists :
    \A i, j \in DOMAIN list :
      i < j /\ NumEq(list[i].confidence, list[j].confidence)
        => FertLabelIndex(list[i].fertilizer) < FertLabelIndex(list[j].fertilizer)

\* C3: two entries of a returned list that carry equal confidence are in the
\* relative order of their candidates in the catalog or the class-label
\* list: for the rule-based crop scorer, the rule-based fertilizer scorer and
\* the statistical fertilizer predictor's top-6 selection.
TiesInInputOrder ==
  CropRuleTiesStable /\ FertRuleTiesStable /\ FertStatTiesStable

(***************************************************************************)
(* C4.                                                                     *)
(***************************************************************************)
\* C4: no list of recommendations has more than 6 entries, on any path.
AtMostSixRecommendations ==
  \A list \in RankedLists \cup MlRankedLists : Len(list) <= 6

\* the fertilizer scorer returned six of its seven candidates, and a
\* predictor returned six of its class labels
SixOfMore ==
  \/ /\ FromFertRules
     /\ Len(FertCandidates) > 6
     /\ Len(response.recommendations) = 6
  \/ \E list \in MlRankedLists :
       Len(list) = 6 /\ Len(ml_predictor.target_encoder) > 6

(***************************************************************************)
(* C5.                                                                     *)
(***************************************************************************)
\* how many of its seven ranges catalog crop c meets
RangesMet(c, in) ==
    One(Between(c.N[1], in.nitrogen, c.N[2]))
  + One(Between(c.P[1], in.phosphorous, c.P[2]))
  + One(Between(c.K[1], in.potassium, c.K[2]))
  + One(Between(c.T[1], in.temperature, c.T[2]))
  + One(Between(c.H[1], in.humidity, c.H[2]))
  + One(Between(c.PH[1], in.ph10, c.PH[2]))
  + One(Between(c.R[1], in.rainfall, c.R[2]))

InUnitRange(list) ==
  \A i \in DOMAIN list :
    /\ NumLe(Q(0, 1), list[i].confidence_percentage)
    /\ NumLe(list[i].confidence_percentage, Q(100, 1))
    /\ NumLe(Q(0, 1), list[i].probability)
    /\ NumLe(list[i].probability, Q(1, 1))

\* C5: every recommendation has confidence_percentage in [0,100] and
\* probability in [0,1]; an entry of the rule-based crop scorer has
\* confidence_percentage in [30,95], exactly 30 when its crop meets none of
\* its ranges and exactly 95 when it meets all seven.
ConfidenceDomain ==
  /\ \A list \in RankedLists : InUnitRange(list)
  /\ \A list \in MlRankedLists :
       \A i \in DOMAIN list :
         /\ NumLe(Q(0, 1), list[i].confidence)
         /\ NumLe(list[i].confidence, Q(100, 1))
  /\ FromCropRules =>
       \A i \in DOMAIN response.recommendations :
         LET e == response.recommendations[i]
             met == RangesMet(CropCatalog[CropCatalogIndex(e.name)], request.form)
         IN /\ NumLe(Q(30, 1), e.confidence_percentage)
            /\ NumLe(e.confidence_percentage, Q(95, 1))
            /\ met = 0 => e.confidence_percentage = Q(30, 1)
            /\ met = 7 => e.confidence_percentage = Q(95, 1)

\* the crop scorer returned a list in which one crop meets all seven of its
\* ranges and is cut to 95, and another meets at most one and is raised to 30
ClampedAtBothEnds ==
  /\ FromCropRules
  /\ \E i, j \in DOMAIN response.recommendations :
       /\ RangesMet(CropCatalog[CropCatalogIndex(response.recommendations[i].name)],
                    request.form) = 7
       /\ response.recommendations[i].confidence_percentage = Q(95, 1)
       /\ RangesMet(CropCatalog[CropCatalogIndex(response.recommendations[j].name)],
                    request.form) <= 1
       /\ response.recommendations[j].confidence_percentage = Q(30, 1)

(***************************************************************************)
(* C6.                                                                     *)
(***************************************************************************)
\* the request reached CropPredictor.predict_crop_recommendation
CropPredictorCalled == "predict_crop_recommendation" \in Range(response.scored)

WellFormedCropResult(r) ==
  /\ DOMAIN r = {"recommended_crop", "top_recommendations", "input_parameters"}
  /\ r.top_recommendations # <<>>
  /\ \A i \in DOMAIN r.top_recommendations :
       DOMAIN r.top_recommendations[i] =
         {"name", "probability", "confidence_percentage", "priority"}

\* C6: every call of predict_crop_recommendation returns a result: an object
\* with recommended_crop, input_parameters and a non-empty
\* top_recommendations whose entries have name, probability,
\* confidence_percentage and priority, whatever the inputs and the mode.
CropPredictionWellFormed ==
  CropPredictorCalled =>
    /\ Len(response.crop_result) = 1
    /\ WellFormedCropResult(response.crop_result[1])

\* a call answered with no trained artifact loaded
PredictedWithoutArtifact ==
  /\ CropPredictorCalled
  /\ ~crop_predictor.use_sklearn
  /\ crop_predictor.model = "None"
  /\ response.crop_result # <<>>

(***************************************************************************)
(* C7.                                                                     *)
(***************************************************************************)
\* scoring raised in the call of the request: the classifier or the scaler
\* rejected the features, or there is no simple model to call
ScoringRaised ==
  /\ CropPredictorCalled
  /\ \/ crop_predictor.use_sklearn
          /\ (crop_predictor.model = "mismatch" \/ HasNaN(request.form))
     \/ ~crop_predictor.use_sklearn /\ crop_predictor.simple_model = "unset"

HardcodedResult ==
  [recommended_crop |-> <<"R","i","c","e">>,
   top_recommendations |-> <<
     [name |-> <<"R","i","c","e">>, probability |-> Q(85, 100),
      confidence_percentage |-> Q(85, 1), priority |-> "High"],
     [name |-> <<"W","h","e","a","t">>, probability |-> Q(70, 100),
      confidence_percentage |-> Q(70, 1), priority |-> "Medium"],
     [name |-> <<"M","a","i","z","e">>, probability |-> Q(60, 100),
      confidence_percentage |-> Q(60, 1), priority |-> "Medium"] >>,
   input_parameters |-> request.form]

\* C7: when scoring raises, in statistical or in fallback mode, the call
\* returns exactly Rice (0.85, 85, High), Wheat (0.70, 70, Medium), Maize
\* (0.60, 60, Medium) with recommended_crop Rice and the inputs echoed; and
\* no call changes the predictor, which so serves the later calls as before.
HardcodedOnScoringError ==
  /\ [](ScoringRaised => response.crop_result = <<HardcodedResult>>)
  /\ [][crop_predictor' = crop_predictor]_vars

\* the loaded classifier rejected a NaN feature
ClassifierRaised ==
  /\ ScoringRaised
  /\ crop_predictor.use_sklearn
  /\ crop_predictor.model = "ok"
  /\ HasNaN(request.form)

(***************************************************************************)
(* C8.                                                                     *)
(***************************************************************************)
FertRequest == request.handler = "fertilizer_recommend" /\ request.numeric

KnownCategories ==
  /\ request.form.soil \in ml_predictor.label_encoders.Soil
  /\ request.form.crop \in ml_predictor.label_encoders.Crop

\* the statistical prediction of the request raised: an encoder rejected a
\* category, or the data set of the fertilizer details could not be read
FertPredictionRaised ==
  /\ FertRequest
  /\ ml_predictor # NoPredictor
  /\ ~KnownCategories \/ dataset # "ok"

\* the lists generate_fertilizer_recommendations can return for the request
RuleBasedListsOfRequest ==
  LET form == request.form
      soil_moisture == Times100(FormMoisture(form))
  IN { generate_fertilizer_recommendations(form.crop, form.nitrogen,
         form.phosphorous, form.potassium, form.temperature, soil_moisture, ups) :
         ups \in SUBSET HalfWay(form.crop, form.nitrogen, form.phosphorous,
                                form.potassium, form.temperature, soil_moisture) }

\* C8: when the statistical fertilizer prediction raises, predict returns
\* {success: false, error: message}, and the handler renders the page of the
\* same request with the non-empty list generate_fertilizer_recommendations
\* computes for it.
FailedPredictionFallsBackToRules ==
  FertPredictionRaised =>
    /\ Len(response.ml_result) = 1
    /\ DOMAIN response.ml_result[1] = {"success", "error"}
    /\ response.ml_result[1].success = FALSE
    /\ response.ml_result[1].error # ""
    /\ Rendered
    /\ response.status = 200
    /\ response.recommendations # <<>>
    /\ response.recommendations \in RuleBasedListsOfRequest

\* a request with a soil type the encoder was not fitted on
UnseenSoilRequest ==
  /\ FertPredictionRaised
  /\ request.form.soil \notin ml_predictor.label_encoders.Soil
  /\ Len(response.recommendations) = 6

(***************************************************************************)
(* C9.                                                                     *)
(***************************************************************************)
\* C9: no fertilizer request changes the predictor's model, encoders and
\* scaler; and after requests with unknown categories, a request with known
\* categories is answered by the statistical path with success true (the
\* data set of the fertilizer details being readable).
UnseenCategoryFailsOnlyItsRequest ==
  /\ [][ml_predictor' = ml_predictor]_vars
  /\ [](/\ unseen_before
        /\ FertRequest
        /\ ml_predictor # NoPredictor
        /\ KnownCategories
        /\ dataset = "ok"
        => /\ Len(response.ml_result) = 1
           /\ response.ml_result[1].success
           /\ ~FromFertRules
           /\ response.recommendations # <<>>)

\* a known-category request answered statistically after an unseen one
KnownAfterUnseen ==
  /\ unseen_before
  /\ FertRequest
  /\ ml_predictor # NoPredictor
  /\ KnownCategories
  /\ response.ml_result # <<>>
  /\ response.ml_result[1].success

(***************************************************************************)
(* C10.                                                                    *)
(***************************************************************************)
\* C10: with no trained crop artifact in use, the page of a valid crop
\* request shows the list the rule-based scorer computes from the request's
\* seven inputs over Rice, Wheat, Maize, Cotton, Jute, Banana.
FallbackModeShowsRuleBasedList ==
  /\ request.handler = "crop_suggestion"
  /\ request.numeric
  /\ Rendered
  /\ ~crop_predictor.use_sklearn
  => response.recommendations = generate_fallback_recommendations(request.form)

(***************************************************************************)
(* C11.                                                                    *)
(***************************************************************************)
NoErrorFlash ==
  \A i \in DOMAIN response.flashes : response.flashes[i].category # "error"

\* C11: when the fertilizer artifacts cannot be loaded, the module keeps no
\* predictor (None), and every fertilizer POST with numeric fields is then
\* answered with the page of the list generate_fertilizer_recommendations
\* computes for it, the predictor not being called and no error flashed.
NoArtifactsSelectsRuleBasedMode ==
  /\ LoadFertilizerPredictor("absent") = NoPredictor
  /\ (FertRequest /\ ml_predictor = NoPredictor) =>
       /\ Rendered
       /\ response.status = 200
       /\ response.ml_result = <<>>
       /\ response.scored = <<"generate_fertilizer_recommendations">>
       /\ response.recommendations \in RuleBasedListsOfRequest
       /\ NoErrorFlash

\* a fertilizer form answered by a deployment without the artifacts
AnsweredWithoutPredictor ==
  /\ FertRequest
  /\ ml_predictor = NoPredictor
  /\ Rendered
  /\ response.recommendations # <<>>
  /\ Len(response.flashes) = 1

(***************************************************************************)
(* C12.                                                                    *)
(***************************************************************************)
\* the mode the instance dispatches its calls to
StatisticalMode(cp) == cp.use_sklearn /\ cp.model # "None" /\ cp.scaler # "None"

\* the results the classifier branch can return for the request
StatisticalResultsOfRequest ==
  { SklearnResult(request.form, probs) : probs \in CropProbVectors }

\* C12: no call of predict_crop_recommendation, returning or raising, changes
\* use_sklearn, model or scaler of the instance; and every call that does not
\* raise is answered by the branch of the mode chosen at construction: the
\* classifier's in statistical mode, the simple model's otherwise.
ModeChosenAtConstruction ==
  /\ [][crop_predictor' = crop_predictor]_vars
  /\ [](CropPredictorCalled /\ ~ScoringRaises(crop_predictor, request.form) =>
          /\ Len(response.crop_result) = 1
          /\ IF StatisticalMode(crop_predictor)
             THEN response.crop_result[1] \in StatisticalResultsOfRequest
             ELSE response.crop_result[1] = SimpleModelPredict(request.form))

\* a call answered by the classifier after an earlier call of the same
\* instance raised
StatisticalAfterRaise ==
  /\ raised_before
  /\ CropPredictorCalled
  /\ crop_predictor.use_sklearn
  /\ ~ScoringRaises(crop_predictor, request.form)
  /\ response.crop_result[1] \in StatisticalResultsOfRequest

(***************************************************************************)
(* C13.                                                                    *)
(***************************************************************************)
\* priority is the statistical mode's function of probability
StatThresholds(e) ==
  /\ e.priority \in {"High", "Medium", "Low"}
  /\ e.priority = "High" <=> NumLt(Q(7, 10), e.probability)
  /\ e.priority = "Medium" <=>
       NumLt(Q(4, 10), e.probability) /\ NumLe(e.probability, Q(7, 10))
  /\ e.priority = "Low" <=> NumLe(e.probability, Q(4, 10))

\* priority is the rule-based crop scorer's function of confidence_percentage
RuleThresholds(e) ==
  /\ e.priority \in {"High", "Medium", "Low"}
  /\ e.priority = "High" <=> NumLe(Q(70, 1), e.confidence_percentage)
  /\ e.priority = "Medium" <=>
       /\ NumLe(Q(50, 1), e.confidence_percentage)
       /\ NumLt(e.confidence_percentage, Q(70, 1))
  /\ e.priority = "Low" <=> NumLt(e.confidence_percentage, Q(50, 1))

\* C13: every entry a call in statistical mode returns is High iff its
\* probability exceeds 0.7, Medium iff it is above 0.4 and at most 0.7, else
\* Low; every entry the rule-based crop scorer returns is High iff its
\* confidence_percentage is at least 70, Medium iff it is at least 50 and
\* below 70, Low iff it is below 50.
PriorityIsThresholdOfScore ==
  /\ CropPredictorCalled /\ StatisticalMode(crop_predictor) =>
       \A r \in CropResults :
         \A e \in Range(r.top_recommendations) : StatThresholds(e)
  /\ FromCropRules =>
       \A e \in Range(response.recommendations) : RuleThresholds(e)

\* a list of the rule-based scorer with the three priorities and an entry on
\* the threshold 70
AllPrioritiesAtThresholds ==
  /\ FromCropRules
  /\ {e.priority : e \in Range(response.recommendations)} =
       {"High", "Medium", "Low"}
  /\ \E e \in Range(response.recommendations) :
       e.confidence_percentage = Q(70, 1) /\ e.priority = "High"

(***************************************************************************)
(* C14.                                                                    *)
(***************************************************************************)
\* N=100, P=45, K=40, temperature=25, humidity=85, pH=6.2, rainfall=200
RiceExample == CropInput(100, 45, 40, 25, 85, 62, 200)

\* C14: for N=100, P=45, K=40, temperature=25, humidity=85, pH=6.2,
\* rainfall=200 the rule-based crop scorer finds Rice inside all seven of its
\* ranges and returns the six crops with Rice first, at a confidence (95) no
\* other entry exceeds.
RiceFirstOnExample ==
  FromCropRules /\ request.form = RiceExample =>
    /\ RangesMet(CropCatalog[1], request.form) = 7
    /\ Len(response.recommendations) = 6
    /\ response.recommendations[1].name = <<"R","i","c","e">>
    /\ response.recommendations[1].confidence_percentage = Q(95, 1)
    /\ \A e \in Range(response.recommendations) :
         NumLe(e.confidence_percentage,
               response.recommendations[1].confidence_percentage)

\* the scorer was called on the example: Jute, which also meets its seven
\* ranges, follows Rice at the same confidence, and the last crop is lower
ScoredRiceExample ==
  /\ FromCropRules
  /\ request.form = RiceExample
  /\ Len(response.recommendations) = 6
  /\ response.recommendations[1].priority = "High"
  /\ response.recommendations[2].name = <<"J","u","t","e">>
  /\ response.recommendations[2].confidence_percentage =
       response.recommendations[1].confidence_percentage
  /\ NumLt(response.recommendations[6].confidence_percentage,
           response.recommendations[1].confidence_percentage)

(***************************************************************************)
(* C15.                                                                    *)
(***************************************************************************)
\* a call of the rule-based fertilizer scorer with N=40, P=20, K=10 and soil
\* moisture 30, whatever the crop type and the temperature
DryDeficitCall ==
  /\ request.handler = "generate_fertilizer_recommendations"
  /\ request.form.n = 40
  /\ request.form.p = 20
  /\ request.form.k = 10
  /\ request.form.soil_moisture = Q(30, 1)

\* the confidences the returned list gives to the fertilizer called name
ConfidencesOf(name) ==
  { e.confidence_percentage :
      e \in { x \in Range(response.recommendations) : x.name = name } }

\* C15: for N=40, P=20, K=10 and soil moisture 30, whatever the temperature
\* and the crop type, Urea and DAP each have a strictly higher confidence
\* than MOP in the returned list, and the score of Organic Compost includes
\* the 10 points of the dry-soil bonus.
UreaAndDapAboveMop ==
  DryDeficitCall =>
    /\ \A mop \in ConfidencesOf(FertCandidates[3].name) :
         /\ ConfidencesOf(FertCandidates[1].name) # {}
         /\ ConfidencesOf(FertCandidates[2].name) # {}
         /\ \A c \in ConfidencesOf(FertCandidates[1].name) \cup
                     ConfidencesOf(FertCandidates[2].name) : NumLt(mop, c)
    /\ FertScore(FertCandidates[7], request.form.crop_type, 40, 20, 10,
                 request.form.temperature, Q(30, 1))
         = 10 * 300 +
           FertScore(FertCandidates[7], request.form.crop_type, 40, 20, 10,
                     request.form.temperature, Q(50, 1))

(***************************************************************************)
(* C16.                                                                    *)
(***************************************************************************)
\* a and b are the same text up to letter case
SameIgnoringCase(a, b) ==
  /\ Len(a) = Len(b)
  /\ \A i \in 1..Len(a) : LowerChar(a[i]) = LowerChar(b[i])

\* the categories with a member equal to name, ignoring case and the blanks
\* around it
CropCategoriesOf(name) ==
  { CropCategories[i].category :
      i \in { j \in 1..Len(CropCategories) :
                \E m \in 1..Len(CropCategories[j].members) :
                  SameIgnoringCase(StrStrip(name), CropCategories[j].members[m]) } }

CropLookup == request.handler = "get_crop_category"

\* the categories of the page in which recommendation rec is listed
ListedUnder(rec) ==
  { response.categorized[j].category :
      j \in { k \in DOMAIN response.categorized :
                \E i \in DOMAIN response.categorized[k].items :
                  response.categorized[k].items[i] = rec } }

\* C16: get_crop_category returns a category for every name: the category of
\* the table member the name equals up to letter case and surrounding
\* blanks, and 'Other Crops' when there is none; Rice, Mango and
\* UnknownCropXYZ give 'Grains & Cereals', 'Fruits' and 'Other Crops'; and on
\* a crop page every recommendation is listed under the category of its name
\* and under no other.
CropCategoryLookupTotal ==
  /\ CropLookup =>
       /\ IF CropCategoriesOf(request.form) = {}
          THEN response.value = "Other Crops"
          ELSE CropCategoriesOf(request.form) = {response.value}
       /\ request.form = <<"R","i","c","e">> => response.value = "Grains & Cereals"
       /\ request.form = <<"M","a","n","g","o">> => response.value = "Fruits"
       /\ request.form = <<"U","n","k","n","o","w","n","C","r","o","p","X","Y","Z">>
            => response.value = "Other Crops"
  /\ request.handler = "crop_suggestion" /\ Rendered =>
       /\ Len(Flatten(response.categorized)) = Len(response.recommendations)
       /\ \A rec \in Range(response.recommendations) :
            ListedUnder(rec) = {get_crop_category(rec.name)}

\* a lookup of a table member written with a capital and inside blanks
LookedUpPaddedName ==
  /\ CropLookup
  /\ StrLower(request.form) # request.form
  /\ StrStrip(request.form) # request.form
  /\ response.value = "Grains & Cereals"

(***************************************************************************)
(* C17.                                                                    *)
(***************************************************************************)
\* the categories of table with a member that name contains, in any case
CategoriesContainedIn(name, table) ==
  { table[i].category :
      i \in { j \in 1..Len(table) :
                \E m \in 1..Len(table[j].members) :
                  StrContains(StrLower(name), table[j].members[m]) } }

FertilizerLookup == request.handler = "get_fertilizer_category"

\* a lookup returns the category of a member the name contains
CropLookupSubstringTolerant ==
  CropLookup /\ CategoriesContainedIn(request.form, CropCategories) # {} =>
    /\ response.value # "Other Crops"
    /\ response.value \in CategoriesContainedIn(request.form, CropCategories)

FertilizerLookupSubstringTolerant ==
  FertilizerLookup /\ CategoriesContainedIn(request.form, FertCategories) # {} =>
    /\ response.value # "Other Fertilizers"
    /\ response.value \in CategoriesContainedIn(request.form, FertCategories)

\* C17: in both domains a name that contains a table member as a substring,
\* in any letter case, is given that member's category and not the 'Other'
\* category.
LookupSubstringTolerant ==
  CropLookupSubstringTolerant /\ FertilizerLookupSubstringTolerant

(***************************************************************************)
(* C18.                                                                    *)
(***************************************************************************)
\* the categories of the page, in the order emitted
EmittedCategories ==
  [j \in DOMAIN response.categorized |-> response.categorized[j].category]

\* the distinct elements of cats in the order of their first occurrence
RECURSIVE FirstSeen(_)
FirstSeen(cats) ==
  IF cats = <<>> THEN <<>>
  ELSE LET before == FirstSeen(SubSeq(cats, 1, Len(cats) - 1))
           last == cats[Len(cats)]
       IN IF last \in Range(before) THEN before ELSE Append(before, last)

\* the order the scheme prescribes for recommendations of categories cats:
\* the preferred categories that occur, in the preferred order, then the
\* other ones in first-seen order
PrescribedOrder(cats, preferred) ==
  SelectSeq(preferred, LAMBDA k : k \in Range(cats)) \o
  SelectSeq(FirstSeen(cats), LAMBDA k : k \notin Range(preferred))

CropPage == request.handler = "crop_suggestion" /\ Rendered

FertilizerPageShown == FertRequest /\ Rendered

CategoryOnPage(rec) ==
  IF request.handler = "crop_suggestion" THEN get_crop_category(rec.name)
  ELSE get_fertilizer_category(rec.name)

\* C19: on a crop page and on a fertilizer page the list of every category
\* is the input ranking restricted to the recommendations of that category:
\* two recommendations of one category keep the order in which they were
\* ranked.
GroupingIsStable ==
  CropPage \/ FertilizerPageShown =>
    \A j \in DOMAIN response.categorized :
      response.categorized[j].items =
        SelectSeq(response.recommendations,
                  LAMBDA rec : CategoryOnPage(rec) = response.categorized[j].category)

\* a fertilizer page with a category of three or more recommendations,
\* between two of which the ranking has one of another category
CategoryInterleavedInRanking ==
  /\ FertilizerPageShown
  /\ \E j \in DOMAIN response.categorized :
       /\ Len(response.categorized[j].items) >= 3
       /\ \E a, b, c \in DOMAIN response.recommendations :
            /\ a < b /\ b < c
            /\ CategoryOnPage(response.recommendations[a]) = response.categorized[j].category
            /\ CategoryOnPage(response.recommendations[c]) = response.categorized[j].category
            /\ CategoryOnPage(response.recommendations[b]) # response.categorized[j].category

(***************************************************************************)
(* C20.                                                                    *)
(***************************************************************************)
\* nitrogen outside [0,200], humidity outside [0,100] or pH outside [3,10]
OutOfRange(in) ==
  \/ ~(NumLe(Q(0, 1), Q(in.nitrogen, 1)) /\ NumLe(Q(in.nitrogen, 1), Q(200, 1)))
  \/ ~(NumLe(Q(0, 1), Q(in.humidity, 1)) /\ NumLe(Q(in.humidity, 1), Q(100, 1)))
  \/ ~(NumLe(Q(30, 1), Q(in.ph10, 1)) /\ NumLe(Q(in.ph10, 1), Q(100, 1)))

\* the form handler does not score an out-of-range request
FormRejectsOutOfRange ==
  request.handler = "crop_suggestion" /\ request.numeric
    /\ OutOfRange(request.form) => ~CropPredictorCalled

\* the JSON endpoint does not score an out-of-range request
ApiRejectsOutOfRange ==
  request.handler = "api_predict_crop" /\ OutOfRange(request.form)
    => ~CropPredictorCalled

\* C20: a request whose nitrogen is outside [0,200], humidity outside
\* [0,100] or pH outside [3,10] does not reach predict_crop_recommendation,
\* through the form handler crop_suggestion or through the JSON endpoint
\* api_predict_crop.
OutOfRangeRejectedBeforeScoring ==
  FormRejectsOutOfRange /\ ApiRejectsOutOfRange

(***************************************************************************)
(* C21.                                                                    *)
(***************************************************************************)
\* the moisture percentage the form carries, in hundredths of a percent: the
\* 'moisture' field when the form has one, else the 'humidity' field
EnteredMoisture(form) ==
  IF "moisture" \in form.fields THEN form.moisture
  ELSE IF "humidity" \in form.fields THEN form.humidity
  ELSE 0

\* the lists the rule-based scorer returns for the form at soil moisture m
RuleBasedListsAt(form, m) ==
  { generate_fertilizer_recommendations(form.crop, form.nitrogen,
      form.phosphorous, form.potassium, form.temperature, m, ups) :
      ups \in SUBSET HalfWay(form.crop, form.nitrogen, form.phosphorous,
                             form.potassium, form.temperature, m) }

\* the rule-based list of the page is the one for the entered percentage
ScorerGetsEnteredMoisture ==
  FertRequest /\ Rendered /\ FromFertRules =>
    response.recommendations \in
      RuleBasedListsAt(request.form, Q(EnteredMoisture(request.form), 100))

\* the predictor is handed the entered percentage as a fraction of one
PredictorGetsOneScale ==
  FertRequest =>
    NumEq(FormArgs(request.form).moisture,
          Q(EnteredMoisture(request.form), 10000))

\* C21: on every fertilizer POST the rule-based scorer is handed the
\* moisture percentage the form carries, in its 'humidity' field, its
\* 'moisture' field or both (so that 30 percent is dry and never wet), and
\* the statistical predictor is handed moisture on one scale, whatever the
\* shape of the form.
MoistureNormalizedConsistently ==
  ScorerGetsEnteredMoisture /\ PredictorGetsOneScale

(***************************************************************************)
(* C24.                                                                    *)
(***************************************************************************)
FlashedMessages == {response.flashes[i].message : i \in DOMAIN response.flashes}

\* the crop list of the page is the trained classifier's
CropListFromTrainedModel == UsesClassifier(crop_predictor, request.form)

\* the fertilizer list of the page is the trained classifier's
FertilizerListFromTrainedModel ==
  response.ml_result # <<>> /\ response.ml_result[1].success

\* a crop page whose list the trained model did not produce is non-empty and
\* carries the warning, not the success message
CropPageMarksBasicResult ==
  CropPage /\ ~CropListFromTrainedModel =>
    /\ response.recommendations # <<>>
    /\ "Using basic recommendations. Install ML packages for AI predictions."
         \in FlashedMessages
    /\ "Success! Generated crop recommendations based on your soil analysis!"
         \notin FlashedMessages

\* a fertilizer page is non-empty and says AI-powered iff the statistical
\* prediction succeeded
FertilizerPageMarksBasicResult ==
  FertilizerPageShown =>
    /\ response.recommendations # <<>>
    /\ "AI-powered fertilizer recommendations generated!" \in FlashedMessages
         <=> FertilizerListFromTrainedModel

\* C24: a page whose list the trained model did not produce still shows a
\* non-empty list and its flash says so: the crop handler flashes the 'basic
\* recommendations' warning instead of the success message, and the
\* fertilizer handler flashes 'AI-powered' iff the statistical prediction
\* succeeded.
FallbackResultMarkedBasic ==
  CropPageMarksBasicResult /\ FertilizerPageMarksBasicResult

(***************************************************************************)
(* C25.                                                                    *)
(***************************************************************************)
FertScorerCall == request.handler = "generate_fertilizer_recommendations"

\* min(100, S) of candidate i for the call's arguments, in units of 1/300
ClampedScore(i) ==
  Min(100 * 300,
      FertScore(FertCandidates[i], request.form.crop_type, request.form.n,
                request.form.p, request.form.k, request.form.temperature,
                request.form.soil_moisture))

\* the entries of the returned list for candidate i
EntriesOf(i) ==
  { j \in DOMAIN response.recommendations :
      response.recommendations[j].name = FertCandidates[i].name }

\* every returned entry has confidence min(100, S)
ConfidenceIsClampedScore ==
  FertScorerCall =>
    \A i \in 1..Len(FertCandidates) : \A j \in EntriesOf(i) :
      NumEq(response.recommendations[j].confidence_percentage,
            Q(ClampedScore(i), 300))

\* priority is High from 70, Medium from 45, else Low
FertPriorityThresholds ==
  FertScorerCall =>
    \A e \in Range(response.recommendations) :
      e.priority = IF NumLe(Q(70, 1), e.confidence_percentage) THEN "High"
                   ELSE IF NumLe(Q(45, 1), e.confidence_percentage) THEN "Medium"
                   ELSE "Low"

\* the list is six candidates, each once, and the score of a candidate left
\* out does not round to more than the confidence of a listed one
SixHighestOnce ==
  FertScorerCall =>
    /\ Len(response.recommendations) = 6
    /\ \A i \in 1..Len(FertCandidates) : Cardinality(EntriesOf(i)) <= 1
    /\ \A k \in 1..Len(FertCandidates) :
         EntriesOf(k) = {} =>
           \A e \in Range(response.recommendations) :
             /\ e.confidence_percentage.den = 10
             /\ ClampedScore(k) <= 30 * e.confidence_percentage.n + 15

\* C25: the rule-based fertilizer scorer gives every catalog fertilizer the
\* confidence min(100, S), S being the nutrient credits, the NPK balance
\* bonus, the environmental bonuses and the crop affinities; the priority is
\* High from 70, Medium from 45 and else Low; and the list returned is the
\* six candidates of highest confidence, each at most once.
FertilizerScoreFormula ==
  ConfidenceIsClampedScore /\ FertPriorityThresholds /\ SixHighestOnce

\* every returned entry has min(100, S) rounded to one decimal as its
\* confidence_percentage and min(100, S) / 100 as its probability
ConfidenceIsRoundedClampedScore ==
  FertScorerCall =>
    \A i \in 1..Len(FertCandidates) : \A j \in EntriesOf(i) :
      LET e == response.recommendations[j]
          c == e.confidence_percentage
      IN /\ c.den = 10 /\ c.d = 0
         /\ 30 * c.n - 15 <= ClampedScore(i)
         /\ ClampedScore(i) <= 30 * c.n + 15
         /\ NumEq(e.probability, Q(ClampedScore(i), 30000))

\* C25, amended: confidence_percentage is min(100, S) rounded to one
\* decimal and probability is min(100, S) / 100; the priority is High from a
\* confidence_percentage of 70, Medium from 45 and else Low; and the list
\* returned is the six candidates of highest confidence_percentage, each at
\* most once.
FertilizerScoreFormulaRounded ==
  ConfidenceIsRoundedClampedScore /\ FertPriorityThresholds /\ SixHighestOnce

\* a call in which the list has an entry whose score was rounded up and one
\* whose score was rounded down
ScoresRoundedBothWays ==
  /\ FertScorerCall
  /\ Len(response.recommendations) = 6
  /\ \E i \in 1..Len(FertCandidates) :
       EntriesOf(i) # {} /\ ClampedScore(i) % 30 > 15
  /\ \E i \in 1..Len(FertCandidates) :
       EntriesOf(i) # {} /\ ClampedScore(i) % 30 \in 1..14

(***************************************************************************)
(* C26.                                                                    *)
(***************************************************************************)
\* the weight of a condition, in hundredths, when x lies in [range[1], range[2]]
Weight(w, range, x) ==
  IF x # NaN /\ range[1] <= x /\ x <= range[2] THEN w ELSE 0

\* 100 x the sum of the weights of the conditions crop c meets
WeightedSum(c, in) ==
    Weight(20, c.N, in.nitrogen) + Weight(15, c.P, in.phosphorous)
  + Weight(15, c.K, in.potassium) + Weight(20, c.T, in.temperature)
  + Weight(15, c.H, in.humidity) + Weight(10, c.PH, in.ph10)
  + Weight(5, c.R, in.rainfall)

Clamp(x, lo, hi) == IF x < lo THEN lo ELSE IF x > hi THEN hi ELSE x

\* C26: the rule-based crop scorer returns each of the six crops once, with
\* confidence_percentage the double computed for clamp(100 x the sum of the
\* weights 0.20, 0.15, 0.15, 0.20, 0.15, 0.10, 0.05 of the inputs inside the
\* crop's inclusive ranges, 30, 95) and probability that of
\* confidence_percentage / 100; the seven weights sum to 1.
CropScoreFormula ==
  /\ 20 + 15 + 15 + 20 + 15 + 10 + 5 = 100
  /\ FromCropRules =>
       /\ Len(response.recommendations) = 6
       /\ \A i \in 1..Len(CropCatalog) :
            \E j \in DOMAIN response.recommendations :
              /\ response.recommendations[j].name = CropCatalog[i].name
              /\ \A k \in DOMAIN response.recommendations :
                   response.recommendations[k].name = CropCatalog[i].name => k = j
              /\ LET e == response.recommendations[j]
                     c == e.confidence_percentage
                 IN /\ c.n = c.den * Clamp(WeightedSum(CropCatalog[i], request.form), 30, 95)
                    /\ c.d \in {-1, 0, 1}
                    /\ 100 * e.probability.n * c.den = c.n * e.probability.den

\* a call with an input on the upper end of a range (N = 100 for Wheat) that
\* gives Wheat a confidence strictly between the two clamps
ScoredOnRangeEnd ==
  /\ FromCropRules
  /\ request.form.nitrogen = CropCatalog[2].N[2]
  /\ \E e \in Range(response.recommendations) :
       /\ e.name = CropCatalog[2].name
       /\ NumLt(Q(30, 1), e.confidence_percentage)
       /\ NumLt(e.confidence_percentage, Q(95, 1))

(***************************************************************************)
(* C27.                                                                    *)
(***************************************************************************)
\* C27: in every result of predict_crop_recommendation, of the statistical
\* path and of the hardcoded fallback alike, recommended_crop is the name of
\* the first entry of top_recommendations.
RecommendedCropIsFirstEntry ==
  \A r \in CropResults :
    /\ Len(r.top_recommendations) >= 1
    /\ r.recommended_crop = r.top_recommendations[1].name

\* a result of the classifier in which two labels share the maximal
\* probability
StatisticalResultWithTiedMaximum ==
  /\ crop_predictor.use_sklearn
  /\ \E r \in CropResults :
       /\ Len(r.top_recommendations) = CropTopN
       /\ r.top_recommendations[1].probability.den = ProbUnits
       /\ r.top_recommendations[1].probability = r.top_recommendations[2].probability
       /\ r.top_recommendations[1].name # r.top_recommendations[2].name

\* a result of the except branch
HardcodedResultReturned ==
  \E r \in CropResults :
    /\ Len(r.top_recommendations) = 3
    /\ r.top_recommendations[1].probability = Q(85, 100)

(***************************************************************************)
(* C28.                                                                    *)
(***************************************************************************)
\* ranks are the consecutive integers 1..k with k <= 6
RanksConsecutive ==
  \A r \in MlResults : r.success =>
    /\ Len(r.top_recommendations) <= 6
    /\ \A i \in DOMAIN r.top_recommendations : r.top_recommendations[i].rank = i

\* the top-level confidence is that of the rank-1 entry
ConfidenceIsRankOneConfidence ==
  \A r \in MlResults : r.success =>
    /\ Len(r.top_recommendations) >= 1
    /\ r.confidence = r.top_recommendations[1].confidence

\* recommended_fertilizer is the fertilizer of the rank-1 entry
RecommendedFertilizerIsRankOne ==
  \A r \in MlResults : r.success =>
    /\ Len(r.top_recommendations) >= 1
    /\ r.recommended_fertilizer = r.top_recommendations[1].fertilizer

\* C28: in every successful result of FertilizerPredictor.predict,
\* recommended_fertilizer is the fertilizer of the rank-1 entry and the
\* top-level confidence is that entry's confidence, also when several labels
\* share the maximal probability; ranks are 1..k with k <= 6.
RecommendedFertilizerIsTopRanked ==
  /\ RecommendedFertilizerIsRankOne
  /\ ConfidenceIsRankOneConfidence
  /\ RanksConsecutive

(***************************************************************************)
(* C22.                                                                    *)
(***************************************************************************)
\* the module-level and predictor-instance state
SharedState == <<crop_predictor, ml_predictor, fertilizer_details, instances>>

\* thread t takes a step of a scoring call
ScoringStep(t) ==
  /\ thread[t].call \in {"predict", "predict_crop_recommendation"}
  /\ thread'[t] # thread[t]

\* no step of a scoring call changes the shared state
ScoringStepsKeepSharedState ==
  [][(\E t \in Threads : ScoringStep(t)) => SharedState' = SharedState]_vars

\* no step of a scoring call changes a predictor instance
ScoringStepsKeepPredictors ==
  [][(\E t \in Threads : ScoringStep(t)) =>
       /\ crop_predictor' = crop_predictor
       /\ ml_predictor' = ml_predictor]_vars

\* what the call of thread t returns when it runs alone, from the state
\* before any call
ReturnedAlone(t) ==
  IF thread[t].call = "predict"
  THEN predict(LoadFertilizerPredictor("ok"), "None", dataset, thread[t].args.a,
               thread[t].args.probs, thread[t].args.stable)
  ELSE predict_crop_recommendation(load_model(CropEnv(TRUE, "ok", "ok", "absent")),
                                   thread[t].args.in, thread[t].args.probs)

\* every scoring call returns what it returns when run alone
ScoringReturnsAsAlone ==
  \A t \in Threads :
    (thread[t].pc = "done"
       /\ thread[t].call \in {"predict", "predict_crop_recommendation"})
    => thread[t].result = <<ReturnedAlone(t)>>

\* C22: for any interleaving of concurrent crop and fertilizer prediction
\* calls, the module-level and predictor-instance state (model, scaler,
\* encoders, use_sklearn, fertilizer knowledge base) is the same after the
\* calls as before them, and each call returns what it returns when run
\* alone with the same inputs.
ScoringMutatesNoSharedState ==
  /\ ScoringStepsKeepSharedState
  /\ []ScoringReturnsAsAlone

\* two fertilizer predictions on seen labels have returned, after running
\* concurrently
TwoPredictionsReturned ==
  \E t, u \in Threads :
    /\ t # u
    /\ thread[t].pc = "done" /\ thread[t].call = "predict"
    /\ thread[u].pc = "done" /\ thread[u].call = "predict"
    /\ thread[t].result[1].success /\ thread[u].result[1].success
    /\ constructed["fertilizer_details"] = 2

(***************************************************************************)
(* C23.                                                                    *)
(***************************************************************************)
\* each constructor has run at most once
ConstructedAtMostOnce ==
  \A g \in DOMAIN constructed : constructed[g] <= 1

\* the callers of a getter that have returned hold the same instance
SameInstanceObtained ==
  \A t, u \in Threads :
    (/\ thread[t].obtained # NoInstance /\ thread[u].obtained # NoInstance
     /\ GlobalOf(thread[t].call) = GlobalOf(thread[u].call))
    => thread[t].obtained = thread[u].obtained

\* a global that is set is never assigned another instance
NeverReplaced ==
  [][\A g \in DOMAIN instances :
       instances[g] # NoInstance => instances'[g] = instances[g]]_vars

\* C23: for any interleaving of concurrent first calls to get_predictor()
\* (and to get_fertilizer_details()), the constructor runs at most once per
\* process, all callers obtain the same instance, and once set the global
\* instance is never replaced.
ArtifactsLoadedOnce ==
  /\ []ConstructedAtMostOnce
  /\ []SameInstanceObtained
  /\ NeverReplaced

(***************************************************************************)
(* C29.                                                                    *)
(***************************************************************************)
\* this step handles a reset_password request with token k
ResetStep(k) ==
  /\ Idle
  /\ request'.handler = "reset_password"
  /\ request'.token = k

\* the form of the request is rejected: the passwords differ or the
\* password is weak
RejectedForm(form) ==
  \/ form.password # form.confirm_password
  \/ validate_password_strength(form.password) # "Password is strong"

\* each issued token has led to at most one password update
AtMostOneUpdate == \A k \in DOMAIN updates : updates[k] <= 1

\* a password is updated only by a request with a token that reset_tokens
\* holds and that has not expired, and that request removes the token
UpdateUsesHeldToken ==
  (users_file' # users_file \/ updates' # updates) =>
    \E k \in DOMAIN reset_tokens :
      /\ ResetStep(k)
      /\ now <= reset_tokens[k].expiry
      /\ k \notin DOMAIN reset_tokens'
      /\ updates' = [updates EXCEPT ![k] = @ + 1]

\* a token expires one hour after forgot_password made it, and its first
\* use after that removes it and updates nothing
ExpiredTokenRemoved ==
  /\ \A k \in DOMAIN reset_tokens' \ DOMAIN reset_tokens :
       reset_tokens'[k].expiry = now + Hour
  /\ \A k \in DOMAIN reset_tokens :
       (ResetStep(k) /\ now > reset_tokens[k].expiry) =>
         /\ k \notin DOMAIN reset_tokens'
         /\ users_file' = users_file

\* a rejected attempt with a token in force keeps the token
RejectedAttemptKeepsToken ==
  \A k \in DOMAIN reset_tokens :
    (/\ ResetStep(k)
     /\ now <= reset_tokens[k].expiry
     /\ request'.method = "POST"
     /\ RejectedForm(request'.form)) =>
      /\ reset_tokens' = reset_tokens
      /\ users_file' = users_file

\* C29: over any sequence of forgot_password and reset_password requests,
\* each issued token leads to at most one successful password update, is
\* removed from reset_tokens on that success and on the first use after its
\* one-hour expiry, is kept after a rejected attempt (password mismatch or
\* weak password), and a request with a removed or never-issued token
\* changes no password.
ResetTokenSingleUse ==
  /\ []AtMostOneUpdate
  /\ [][/\ UpdateUsesHeldToken
        /\ ExpiredTokenRemoved
        /\ RejectedAttemptKeepsToken]_vars

\* a token that has updated a password is presented again with a valid form
\* and is refused
UsedTokenRefused ==
  /\ request.handler = "reset_password"
  /\ request.method = "POST"
  /\ updates[request.token] = 1
  /\ ~RejectedForm(request.form)
  /\ response.kind = "redirect"
  /\ response.flashes[1].category = "error"

\* an expired token is presented and removed, another token still in force
ExpiredTokenRefused ==
  /\ request.handler = "reset_password"
  /\ response.flashes # <<>>
  /\ response.flashes[1].message = "Reset link has expired. Please request a new one."
  /\ request.token \notin DOMAIN reset_tokens
  /\ DOMAIN reset_tokens # {}

(***************************************************************************)
(* C30.                                                                    *)
(***************************************************************************)
\* the files after call c has run alone on them
Applied(fs, c) ==
  IF fs[FileOf(c)].state = "json" /\ Modified(fs[FileOf(c)].db, c).write
  THEN [fs EXCEPT ![FileOf(c)] = Json(Modified(fs[FileOf(c)].db, c).db)]
  ELSE fs

\* threads t and u have each made one call and both calls have returned
BothReturned(t, u) ==
  /\ t # u
  /\ caller[t].pc = "done" /\ caller[u].pc = "done"
  /\ \A v \in Threads \ {t, u} : caller[v].pc = "idle"

\* after two concurrent saves both records are in the file
BothSavesPresent ==
  \A t, u \in Threads :
    (/\ BothReturned(t, u)
     /\ caller[t].call.op = caller[u].call.op
     /\ caller[t].call.op \in {"save_fertilizer_recommendation", "save_growing_activity"})
    => /\ files[FileOf(caller[t].call)].state = "json"
       /\ \A c \in {caller[t].call, caller[u].call} :
            \E i \in DOMAIN files[FileOf(c)].db[c.user_id] :
              files[FileOf(c)].db[c.user_id][i].id = c.id

\* a delete or an update for one user leaves the records of the other
\* users as the other call alone leaves them
OtherUsersUntouched ==
  \A t, u \in Threads :
    (/\ BothReturned(t, u)
     /\ caller[t].call.op \in {"delete_fertilizer_recommendation",
                               "update_growing_activity", "delete_growing_activity"}
     /\ caller[u].call.user_id # caller[t].call.user_id)
    => /\ files[FileOf(caller[u].call)].state = "json"
       /\ files[FileOf(caller[u].call)].db[caller[u].call.user_id]
            = Applied(InitialFiles, caller[u].call)[FileOf(caller[u].call)].db[caller[u].call.user_id]

\* C30: for any interleaving of two concurrent calls that modify the file
\* store, the final file contents are those of some sequential order of the
\* two calls; after two concurrent saves both records are present, and a
\* delete or update for one user leaves every other user's records
\* unchanged.
ConcurrentCallsSerializable ==
  /\ \A t, u \in Threads :
       BothReturned(t, u) =>
         \/ files = Applied(Applied(InitialFiles, caller[t].call), caller[u].call)
         \/ files = Applied(Applied(InitialFiles, caller[u].call), caller[t].call)
  /\ BothSavesPresent
  /\ OtherUsersUntouched

\* both calls were saves that wrote the file, and the record of one of them
\* is not in it
SavedRecordOverwritten ==
  \E t, u \in Threads :
    /\ BothReturned(t, u)
    /\ caller[t].result = "written" /\ caller[u].result = "written"
    /\ caller[t].call.op = "save_growing_activity"
    /\ caller[u].call.op = "save_growing_activity"
    /\ files["growing_activities.json"].state = "json"
    /\ ~\E i \in DOMAIN files["growing_activities.json"].db[caller[t].call.user_id] :
          files["growing_activities.json"].db[caller[t].call.user_id][i].id = caller[t].call.id

====
